---- MODULE Spec2Model ----
(***************************************************************************)
(* Verification model of the OneKey RAG service.                           *)
(*                                                                         *)
(* Part I  : the job worker (worker.py) and the in-process job runner of   *)
(*           the admin endpoints (api/app.py).                             *)
(* Part II : the chat-completions endpoint (api/app.py): the concurrency   *)
(*           gate and the SSE frames of event_stream.                      *)
(***************************************************************************)
EXTENDS Integers, Sequences, FiniteSets, TLC

(***************************************************************************)
(* Bounds of the model.                                                    *)
(***************************************************************************)
\* the clock (_utcnow) runs over 0..MaxTime
MaxTime == 3
\* the value of WORKER_STALE_AFTER_S when the stale requeue is enabled
StaleT == 1
\* the value of WORKER_MAX_ATTEMPTS
MaxAttempts == 2

Jobs == {"j1", "j2"}
Workers == {"w1", "w2"}
\* str(e) of the exceptions a handler may raise; str(RuntimeError()) = ""
ExcMessages == {"", "boom"}

\* LIMIT of the stale-job query
StaleLimit == 10

VARIABLES
    now,            \* _utcnow()
    stale_after_s,  \* WORKER_STALE_AFTER_S, read once in main()
    jobs_backend,   \* settings.jobs_backend
    job,            \* the jobs table: Jobs -> row
    wpc,            \* where each worker is in main() / _process_job
    wjob,           \* main(): job_id
    werr,           \* _process_job: err
    inline          \* the BackgroundTasks _run closures of admin_crawl / admin_index

wvars == <<now, stale_after_s, jobs_backend, job, wpc, wjob, werr, inline>>

VARIABLES
    max_concurrent,         \* settings.max_concurrent_chat_requests
    chat_configured,        \* app.state.chat is not None
    answer_append_sources,  \* settings.answer_append_sources
    permits,                \* the value of app.state.chat_semaphore
    rpc,                    \* where each request is in openai_chat_completions / event_stream
    rstream,                \* req.stream
    rmodel,                 \* req.model
    prepared,               \* event_stream: prepared
    frames,                 \* the SSE frames the client has received
    outq,                   \* the parts of the for-loop over _chunk_text still to be yielded
    resume,                 \* where event_stream goes on after that loop
    parts,                  \* what chat.stream has produced so far
    path,                   \* which branch of event_stream the request took
    http                    \* the status of the non-stream response

svars == <<max_concurrent, chat_configured, answer_append_sources, permits, rpc, rstream,
           rmodel, prepared, frames, outq, resume, parts, path, http>>

VARIABLES
    rag,    \* one call of answer_with_rag / prepare_rag: its arguments, locals and result
    fx,     \* one call of a pure function: its arguments and its result
    idx,    \* the contract_index table: stored address -> row
    creq,   \* the requests that read and write the contract index, each with its position
    nreq,   \* how many such requests have started
    best    \* per stored address, the row the confidence rule of the index would keep

cvars == <<idx, creq, nreq, best>>

\* the variables of the parts that follow the worker and the chat endpoint
xvars == <<rag, fx, cvars>>

vars == <<wvars, svars, xvars>>

NoJob == "none"
NoTime == -1
\* the note _requeue_stale_jobs appends to error, abbreviated
StaleNote == "[worker] stale, requeued"

\* a row that was not inserted yet: session.get(Job, id) returns None
AbsentRow ==
    [status |-> "absent", started_at |-> NoTime, finished_at |-> NoTime,
     error |-> "", attempts |-> 0]

\* err: str | None = None
NoErr == [raised |-> FALSE, msg |-> ""]

\* Python truthiness of `err` in `if err:`
Truthy(err) == err.raised /\ err.msg # ""

Min(a, b) == IF a < b THEN a ELSE b

\* no call of the pipeline or of a pure function is under way
\* the addresses the model writes rows under: a well-formed address, the same
\* followed by one more hexadecimal digit, and a text that is no address
StoredKeys == {"0xa", "0xa+", "bad"}

\* the requests on the contract index: two GET /contracts/{address}, one query
\* of the pipeline, one batch build
IndexReqs == {"g1", "g2", "q", "b"}

NoRow == [protocol |-> "", contract_type |-> "", confidence |-> 0, seq |-> 0]

NoRequest == [pc |-> "idle"]

\* an empty contract index and no request on it
CIdle ==
    /\ idx = [k \in StoredKeys |-> NoRow]
    /\ creq = [r \in IndexReqs |-> NoRequest]
    /\ nreq = 0
    /\ best = [k \in StoredKeys |-> NoRow]

XIdle ==
    /\ rag = [pc |-> "idle"]
    /\ fx = [pc |-> "idle"]
    /\ CIdle

(***************************************************************************)
(* Part I: the job worker                                                  *)
(***************************************************************************)

\* (j.error + "\n" + note).strip()
AppendNote(e) == IF e = "" THEN StaleNote ELSE e \o "\n" \o StaleNote

\* a stale query that never finds a row
StaleJobs_none(jb, t, after_s) == {}

\* WHERE status = 'running' AND started_at < threshold
StaleJobs(jb, t, after_s) ==
    {j \in DOMAIN jb : jb[j].status = "running" /\ jb[j].started_at < t - after_s}

\* the stale query without its LIMIT
StaleSelections_unlimited(jb, t, after_s) ==
    IF after_s <= 0 THEN {{}} ELSE {StaleJobs(jb, t, after_s)}

\* ORDER BY started_at ASC LIMIT 10: the possible result sets
StaleSelections(jb, t, after_s) ==
    IF after_s <= 0 THEN {{}}
    ELSE LET st == StaleJobs(jb, t, after_s)
             n  == Min(StaleLimit, Cardinality(st))
         IN {S \in SUBSET st :
                /\ Cardinality(S) = n
                /\ \A a \in S, b \in st \ S : jb[a].started_at <= jb[b].started_at}

\* the loop body of _requeue_stale_jobs over the selected rows
requeue_stale_jobs(jb, S) ==
    [j \in DOMAIN jb |->
        IF j \in S
        THEN [jb[j] EXCEPT !.status = "queued", !.error = AppendNote(jb[j].error)]
        ELSE jb[j]]

\* WHERE status = 'queued' ORDER BY started_at ASC LIMIT 1: the possible rows
ClaimCandidates(jb) ==
    {j \in Jobs :
        /\ jb[j].status = "queued"
        /\ \A k \in Jobs : jb[k].status = "queued" => jb[j].started_at <= jb[k].started_at}

\* the assignments of _claim_next_job
claim_next_job(jb, j, t) ==
    [jb EXCEPT ![j] = [@ EXCEPT !.status = "running", !.started_at = t, !.error = ""]]

\* main(): one pass of the polling loop; requeue and claim are one transaction
WorkerTick(w) ==
    /\ wpc[w] = "poll"
    /\ \E S \in StaleSelections(job, now, stale_after_s) :
          LET jb1 == requeue_stale_jobs(job, S) IN
          IF ClaimCandidates(jb1) = {}
          THEN /\ job' = jb1
               /\ UNCHANGED <<wpc, wjob>>
          ELSE \E j \in ClaimCandidates(jb1) :
                  /\ job' = claim_next_job(jb1, j, now)
                  /\ wpc' = [wpc EXCEPT ![w] = "claimed"]
                  /\ wjob' = [wjob EXCEPT ![w] = j]
    /\ UNCHANGED <<now, stale_after_s, jobs_backend, werr, inline>>
    /\ UNCHANGED <<svars, xvars>>

\* _process_job, first session: the status check and the attempt increment
ProcessJobBegin(w) ==
    /\ wpc[w] = "claimed"
    /\ LET j == wjob[w] IN
       IF job[j].status = "absent" \/ job[j].status # "running"
       THEN /\ wpc' = [wpc EXCEPT ![w] = "poll"]
            /\ wjob' = [wjob EXCEPT ![w] = NoJob]
            /\ UNCHANGED job
       ELSE /\ job' = [job EXCEPT ![j].attempts = job[j].attempts + 1]
            /\ wpc' = [wpc EXCEPT ![w] = "handler"]
            /\ UNCHANGED wjob
    /\ werr' = [werr EXCEPT ![w] = NoErr]
    /\ UNCHANGED <<now, stale_after_s, jobs_backend, inline>>
    /\ UNCHANGED <<svars, xvars>>

\* _process_job, second session: the handler returns its progress dict
HandlerReturn(w) ==
    /\ wpc[w] = "handler"
    /\ werr' = [werr EXCEPT ![w] = NoErr]
    /\ wpc' = [wpc EXCEPT ![w] = "final"]
    /\ UNCHANGED <<now, stale_after_s, jobs_backend, job, wjob, inline>>
    /\ UNCHANGED <<svars, xvars>>

\* _process_job, second session: the handler raises; err = str(e)
HandlerRaise(w) ==
    /\ wpc[w] = "handler"
    /\ \E m \in ExcMessages : werr' = [werr EXCEPT ![w] = [raised |-> TRUE, msg |-> m]]
    /\ wpc' = [wpc EXCEPT ![w] = "final"]
    /\ UNCHANGED <<now, stale_after_s, jobs_backend, job, wjob, inline>>
    /\ UNCHANGED <<svars, xvars>>

\* int(meta.get("attempts") or 1)
AttemptsOr1(row) == IF row.attempts = 0 THEN 1 ELSE row.attempts

\* the row written by the third session of _process_job
FinalRow(row, err, t) ==
    LET attempts == AttemptsOr1(row) IN
    IF Truthy(err)
    THEN IF MaxAttempts > 0 /\ attempts < MaxAttempts
         THEN [row EXCEPT !.error = err.msg, !.status = "queued"]
         ELSE [row EXCEPT !.error = err.msg, !.status = "failed",
                          !.finished_at = t, !.attempts = attempts]
    ELSE [row EXCEPT !.status = "succeeded", !.finished_at = t, !.attempts = attempts]

\* _process_job, third session: the final status write
ProcessJobEnd(w) ==
    /\ wpc[w] = "final"
    /\ LET j == wjob[w] IN
       IF job[j].status = "absent"
       THEN UNCHANGED job
       ELSE job' = [job EXCEPT ![j] = FinalRow(job[j], werr[w], now)]
    /\ wpc' = [wpc EXCEPT ![w] = "poll"]
    /\ wjob' = [wjob EXCEPT ![w] = NoJob]
    /\ werr' = [werr EXCEPT ![w] = NoErr]
    /\ UNCHANGED <<now, stale_after_s, jobs_backend, inline>>
    /\ UNCHANGED <<svars, xvars>>

\* the worker process is killed; its local state is lost, the rows stay as they are
WorkerStop(w) ==
    /\ wpc[w] # "stopped"
    /\ \E v \in Workers \ {w} : wpc[v] # "stopped"
    /\ now + StaleT < MaxTime
    /\ wpc' = [wpc EXCEPT ![w] = "stopped"]
    /\ wjob' = [wjob EXCEPT ![w] = NoJob]
    /\ werr' = [werr EXCEPT ![w] = NoErr]
    /\ UNCHANGED <<now, stale_after_s, jobs_backend, job, inline>>
    /\ UNCHANGED <<svars, xvars>>

\* admin_crawl / admin_index: insert the Job row, schedule _run unless the backend is the worker
AdminSubmit(j) ==
    /\ job[j].status = "absent"
    /\ LET worker == (jobs_backend = "worker") IN
       /\ job' = [job EXCEPT ![j] =
                    [status |-> IF worker THEN "queued" ELSE "running",
                     started_at |-> now, finished_at |-> NoTime,
                     error |-> "", attempts |-> 0]]
       /\ inline' = [inline EXCEPT ![j] = IF worker THEN "none" ELSE "pending"]
    /\ UNCHANGED <<now, stale_after_s, jobs_backend, wpc, wjob, werr>>
    /\ UNCHANGED <<svars, xvars>>

\* _run of admin_crawl / admin_index: the call returns; progress is replaced by the result
InlineRunReturn(j) ==
    /\ inline[j] = "pending"
    /\ job' = IF job[j].status = "absent" THEN job
              ELSE [job EXCEPT ![j].status = "succeeded", ![j].attempts = 0]
    /\ inline' = [inline EXCEPT ![j] = "done"]
    /\ UNCHANGED <<now, stale_after_s, jobs_backend, wpc, wjob, werr>>
    /\ UNCHANGED <<svars, xvars>>

\* _run of admin_crawl / admin_index: the call raises
InlineRunRaise(j) ==
    /\ inline[j] = "pending"
    /\ \E m \in ExcMessages :
          job' = IF job[j].status = "absent" THEN job
                 ELSE [job EXCEPT ![j].status = "failed", ![j].error = m]
    /\ inline' = [inline EXCEPT ![j] = "done"]
    /\ UNCHANGED <<now, stale_after_s, jobs_backend, wpc, wjob, werr>>
    /\ UNCHANGED <<svars, xvars>>

\* time passes
ClockTick ==
    /\ now < MaxTime
    /\ now' = now + 1
    /\ UNCHANGED <<stale_after_s, jobs_backend, job, wpc, wjob, werr, inline>>
    /\ UNCHANGED <<svars, xvars>>

\* an empty jobs table, every worker at the top of its loop
WIdle ==
    /\ job = [j \in Jobs |-> AbsentRow]
    /\ wpc = [w \in Workers |-> "poll"]
    /\ wjob = [w \in Workers |-> NoJob]
    /\ werr = [w \in Workers |-> NoErr]
    /\ inline = [j \in Jobs |-> "none"]

WInit ==
    /\ now = 0
    /\ stale_after_s \in {0, StaleT}
    /\ jobs_backend \in {"worker", "inline"}
    /\ WIdle

WNext ==
    \/ \E w \in Workers : WorkerTick(w)
    \/ \E w \in Workers : ProcessJobBegin(w)
    \/ \E w \in Workers : HandlerReturn(w)
    \/ \E w \in Workers : HandlerRaise(w)
    \/ \E w \in Workers : ProcessJobEnd(w)
    \/ \E w \in Workers : WorkerStop(w)
    \/ \E j \in Jobs : AdminSubmit(j)
    \/ \E j \in Jobs : InlineRunReturn(j)
    \/ \E j \in Jobs : InlineRunRaise(j)
    \/ ClockTick

\* workers and in-process tasks keep running, the clock advances
WFair ==
    /\ \A w \in Workers : WF_vars(WorkerTick(w))
    /\ \A w \in Workers : WF_vars(ProcessJobBegin(w))
    /\ \A w \in Workers : WF_vars(HandlerReturn(w) \/ HandlerRaise(w))
    /\ \A w \in Workers : WF_vars(ProcessJobEnd(w))
    /\ \A j \in Jobs : WF_vars(InlineRunReturn(j) \/ InlineRunRaise(j))
    /\ WF_vars(ClockTick)

(***************************************************************************)
(* Part II: POST /v1/chat/completions                                      *)
(***************************************************************************)

Reqs == {"r1", "r2"}
Models == {"onekey-docs", "tx-analyzer"}
\* prepare_rag's default for requested_model
NoModel == "None"
\* len(str(e)) of the exceptions prepare_rag and chat.stream may raise
ErrMsgLens == {0, 70}
\* the largest value of settings.max_concurrent_chat_requests
MaxConcurrent == 2
\* how many parts chat.stream yields at most
MaxParts == 2
\* how many sources prepare_rag returns at most
MaxSources == 1

\* the chunk_size arguments of _chunk_text
ErrChunkSize == 80
TextChunkSize == 60
\* len() of the two fixed error prefixes, of the timeout text and of the fixed part of no_chat_text
PrepFailedPrefixLen == 18
UpstreamFailedPrefixLen == 18
PrepTimeoutLen == 28
NoChatPrefixLen == 78
\* len() of the three no-sources answers
NoSourcesLenOneKey == 68
NoSourcesLenTx == 43
NoSourcesLenGeneric == 25

\* asyncio.Semaphore(max(1, int(settings.max_concurrent_chat_requests or 1)))
SemSize(cfg) == IF (IF cfg = 0 THEN 1 ELSE cfg) < 1 THEN 1 ELSE (IF cfg = 0 THEN 1 ELSE cfg)

\* Semaphore.acquire returns only while the value is positive
CanAcquire(p) == p > 0
sem_acquire(p) == p - 1
\* a release that gives nothing back
sem_release_lost(p) == p
\* Semaphore.release
sem_release(p) == p + 1

\* a text as its origin and length; a part of it as the half-open range [lo, hi)
Text(src, len) == [src |-> src, len |-> len]

\* _resolve_default_prompts(requested_model)[1]
resolve_default_prompts(m) ==
    IF m = "onekey-docs" \/ m = NoModel THEN Text("no_sources:onekey-docs", NoSourcesLenOneKey)
    ELSE IF m = "tx-analyzer" THEN Text("no_sources:tx-analyzer", NoSourcesLenTx)
    ELSE Text("no_sources:generic", NoSourcesLenGeneric)

\* the requested_model argument event_stream gives prepare_rag: none, so the default
PassedRequestedModel(m) == NoModel

\* a chunking that drops the last, shorter piece
chunk_text_truncating(text, chunk_size) ==
    [i \in 1..(text.len \div chunk_size) |->
        [src |-> text.src, lo |-> (i - 1) * chunk_size, hi |-> i * chunk_size]]

\* [text[i : i + chunk_size] for i in range(0, len(text), chunk_size)]
chunk_text(text, chunk_size) ==
    IF chunk_size <= 0
    THEN <<[src |-> text.src, lo |-> 0, hi |-> text.len]>>
    ELSE LET n == (text.len + chunk_size - 1) \div chunk_size IN
         [i \in 1..n |-> [src |-> text.src, lo |-> (i - 1) * chunk_size,
                          hi |-> Min(i * chunk_size, text.len)]]

RoleFrame == [kind |-> "role", src |-> "", lo |-> 0, hi |-> 0, n |-> 0]
ContentFrame(p) == [kind |-> "content", src |-> p.src, lo |-> p.lo, hi |-> p.hi, n |-> 0]
StopFrame == [kind |-> "stop", src |-> "", lo |-> 0, hi |-> 0, n |-> 0]
SourcesEvent(k) == [kind |-> "sources", src |-> "", lo |-> 0, hi |-> 0, n |-> k]
DoneFrame == [kind |-> "done", src |-> "", lo |-> 0, hi |-> 0, n |-> 0]

ContentFrames(ps) == [i \in 1..Len(ps) |-> ContentFrame(ps[i])]

\* prepared = None
NotPrepared == [kind |-> "none", answer |-> Text("", 0), nsrc |-> 0]

\* the frames of the `except asyncio.TimeoutError` branch around prepare_rag
PrepareTimeoutFrames ==
    ContentFrames(chunk_text(Text("prepare_timeout", PrepTimeoutLen), ErrChunkSize))

\* the frames of the `except Exception` branch around prepare_rag
PrepareFailedFrames(len) ==
    ContentFrames(chunk_text(Text("prepare_failed", PrepFailedPrefixLen + len), ErrChunkSize))

\* the frames of the `except Exception` branch around chat.stream
UpstreamErrorFrames(len) ==
    ContentFrames(chunk_text(Text("upstream_failed", UpstreamFailedPrefixLen + len), ErrChunkSize))

\* sources_tail: empty unless there are sources and answer_append_sources is set
SourcesTail(nsrc, append) ==
    IF nsrc > 0 /\ append THEN Text("sources_tail", nsrc) ELSE Text("", 0)

\* no_chat_text
NoChatText(prep, chat) ==
    IF ~chat /\ prep.kind = "ok" /\ prep.nsrc > 0
    THEN Text("no_chat", NoChatPrefixLen + prep.nsrc)
    ELSE Text("", 0)

\* base_text + tail of the branch that does not call the chat provider
DirectText(prep, chat, append) ==
    LET base == IF prep.kind = "direct" /\ prep.answer.len > 0 THEN prep.answer
                ELSE NoChatText(prep, chat)
        tail == IF prep.kind = "direct" THEN SourcesTail(prep.nsrc, append) ELSE Text("", 0)
    IN  IF tail.len = 0 THEN base ELSE Text(base.src \o "+" \o tail.src, base.len + tail.len)

\* an ending without the sources event
ClosingFrames_no_sources(nsrc) == <<StopFrame, DoneFrame>>

\* the three frames that end every stream
ClosingFrames(nsrc) == <<StopFrame, SourcesEvent(nsrc), DoneFrame>>

\* run the yields of q, then go on at `next`
Yield(r, q, next) ==
    IF q = <<>>
    THEN /\ rpc' = [rpc EXCEPT ![r] = next]
         /\ UNCHANGED <<outq, resume>>
    ELSE /\ rpc' = [rpc EXCEPT ![r] = "emit"]
         /\ outq' = [outq EXCEPT ![r] = q]
         /\ resume' = [resume EXCEPT ![r] = next]

\* the frames of the branch that does not call the chat provider, up to [DONE]
DirectBranchFrames(prep, chat, append) ==
    ContentFrames(chunk_text(DirectText(prep, chat, append), TextChunkSize))
        \o ClosingFrames(prep.nsrc)

\* (not prepared) or direct_answer is not None or not messages or not chat
TakesDirectBranch(prep, chat) == prep.kind = "none" \/ prep.kind = "direct" \/ ~chat

scfg == <<max_concurrent, chat_configured, answer_append_sources>>

\* requests are named in the order of their arrival
ArrivesBefore(q, r) == q = "r1" /\ r = "r2"

\* the request arrives; a request without user content is answered 400 before the gate
Arrive(r) ==
    /\ rpc[r] = "new"
    /\ \A q \in Reqs : ArrivesBefore(q, r) => rpc[q] # "new"
    /\ \E st \in BOOLEAN, m \in Models, question \in BOOLEAN :
          /\ rstream' = [rstream EXCEPT ![r] = st]
          /\ rmodel' = [rmodel EXCEPT ![r] = m]
          /\ IF question
             THEN rpc' = [rpc EXCEPT ![r] = "gate"] /\ UNCHANGED http
             ELSE rpc' = [rpc EXCEPT ![r] = "responded"] /\ http' = [http EXCEPT ![r] = 400]
    /\ UNCHANGED <<scfg, permits, prepared, frames, outq, resume, parts, path>>
    /\ UNCHANGED <<wvars, xvars>>

\* await sem.acquire(); a stream then yields the role frame and awaits prepare_rag
Acquire(r) ==
    /\ rpc[r] = "gate"
    /\ CanAcquire(permits)
    /\ permits' = sem_acquire(permits)
    /\ IF rstream[r]
       THEN /\ frames' = [frames EXCEPT ![r] = <<RoleFrame>>]
            /\ rpc' = [rpc EXCEPT ![r] = "prepare"]
       ELSE /\ rpc' = [rpc EXCEPT ![r] = "answering"]
            /\ UNCHANGED frames
    /\ UNCHANGED <<scfg, rstream, rmodel, prepared, outq, resume, parts, path, http>>
    /\ UNCHANGED <<wvars, xvars>>

\* non-stream: answer_with_rag returns, times out (504) or raises (500); finally: release
NonStreamEnd(r) ==
    /\ rpc[r] = "answering"
    /\ \E status \in {200, 504, 500} : http' = [http EXCEPT ![r] = status]
    /\ permits' = sem_release(permits)
    /\ rpc' = [rpc EXCEPT ![r] = "responded"]
    /\ UNCHANGED <<scfg, rstream, rmodel, prepared, frames, outq, resume, parts, path>>
    /\ UNCHANGED <<wvars, xvars>>

\* prepare_rag returns the no-sources answer: direct_answer set, sources = [], messages = None
PrepareDirect(r) ==
    /\ rpc[r] = "prepare"
    /\ LET prep == [kind |-> "direct",
                    answer |-> resolve_default_prompts(PassedRequestedModel(rmodel[r])),
                    nsrc |-> 0] IN
       /\ prepared' = [prepared EXCEPT ![r] = prep]
       /\ Yield(r, DirectBranchFrames(prep, chat_configured, answer_append_sources), "exhausted")
    /\ path' = [path EXCEPT ![r] = "no_sources"]
    /\ UNCHANGED <<scfg, permits, rstream, rmodel, frames, parts, http>>
    /\ UNCHANGED <<wvars, xvars>>

\* prepare_rag returns messages and k sources
PrepareOk(r) ==
    /\ rpc[r] = "prepare"
    /\ \E k \in 0..MaxSources :
          LET prep == [kind |-> "ok", answer |-> Text("", 0), nsrc |-> k] IN
          /\ prepared' = [prepared EXCEPT ![r] = prep]
          /\ IF TakesDirectBranch(prep, chat_configured)
             THEN /\ Yield(r, DirectBranchFrames(prep, chat_configured, answer_append_sources),
                           "exhausted")
                  /\ path' = [path EXCEPT ![r] = "no_chat"]
             ELSE /\ rpc' = [rpc EXCEPT ![r] = "chat"]
                  /\ path' = [path EXCEPT ![r] = "chat"]
                  /\ UNCHANGED <<outq, resume>>
    /\ UNCHANGED <<scfg, permits, rstream, rmodel, frames, parts, http>>
    /\ UNCHANGED <<wvars, xvars>>

\* asyncio.wait_for(prepare_rag, rag_prepare_timeout_s) times out; prepared stays None
PrepareTimeout(r) ==
    /\ rpc[r] = "prepare"
    /\ Yield(r, PrepareTimeoutFrames
                \o DirectBranchFrames(NotPrepared, chat_configured, answer_append_sources),
             "exhausted")
    /\ path' = [path EXCEPT ![r] = "prepare_timeout"]
    /\ UNCHANGED <<scfg, permits, rstream, rmodel, prepared, frames, parts, http>>
    /\ UNCHANGED <<wvars, xvars>>

\* prepare_rag raises; prepared stays None
PrepareFailed(r) ==
    /\ rpc[r] = "prepare"
    /\ \E len \in ErrMsgLens :
          Yield(r, PrepareFailedFrames(len)
                   \o DirectBranchFrames(NotPrepared, chat_configured, answer_append_sources),
                "exhausted")
    /\ path' = [path EXCEPT ![r] = "prepare_failed"]
    /\ UNCHANGED <<scfg, permits, rstream, rmodel, prepared, frames, parts, http>>
    /\ UNCHANGED <<wvars, xvars>>

\* one yield: the generator hands the next frame to the client
EmitFrame(r) ==
    /\ rpc[r] = "emit"
    /\ frames' = [frames EXCEPT ![r] = Append(@, Head(outq[r]))]
    /\ outq' = [outq EXCEPT ![r] = Tail(@)]
    /\ rpc' = [rpc EXCEPT ![r] = IF Tail(outq[r]) = <<>> THEN resume[r] ELSE "emit"]
    /\ UNCHANGED <<scfg, permits, rstream, rmodel, prepared, resume, parts, path, http>>
    /\ UNCHANGED <<wvars, xvars>>

\* the frame of the i-th part chat.stream produced
PartFrame(i) == ContentFrame([src |-> "part", lo |-> i, hi |-> i + 1])

\* chat.stream yields a part; an empty part is skipped (`if not part: continue`)
ProviderPart(r) ==
    /\ rpc[r] = "chat"
    /\ Len(parts[r]) < MaxParts
    /\ \E empty \in BOOLEAN :
          /\ parts' = [parts EXCEPT ![r] = Append(@, empty)]
          /\ frames' = [frames EXCEPT ![r] =
                IF empty THEN @ ELSE Append(@, PartFrame(Len(parts[r]) + 1))]
    /\ UNCHANGED <<scfg, permits, rpc, rstream, rmodel, prepared, outq, resume, path, http>>
    /\ UNCHANGED <<wvars, xvars>>

\* the frames after chat.stream ended: the sources tail as one content frame, then the closing
StreamEndFrames(nsrc, append) ==
    LET tail == SourcesTail(nsrc, append) IN
    (IF tail.len = 0 THEN <<>>
     ELSE <<ContentFrame([src |-> tail.src, lo |-> 0, hi |-> tail.len])>>)
        \o ClosingFrames(nsrc)

\* chat.stream ends
ProviderEnd(r) ==
    /\ rpc[r] = "chat"
    /\ Yield(r, StreamEndFrames(prepared[r].nsrc, answer_append_sources), "exhausted")
    /\ UNCHANGED <<scfg, permits, rstream, rmodel, prepared, frames, parts, path, http>>
    /\ UNCHANGED <<wvars, xvars>>

\* an upstream error that ends the stream without the error text
StreamErrorFrames_silent(len, nsrc) == ClosingFrames(nsrc)

\* the frames after chat.stream raised: the inline error text, then the closing
StreamErrorFrames(len, nsrc) == UpstreamErrorFrames(len) \o ClosingFrames(nsrc)

\* chat.stream raises
ProviderRaise(r) ==
    /\ rpc[r] = "chat"
    /\ \E len \in ErrMsgLens : Yield(r, StreamErrorFrames(len, prepared[r].nsrc), "exhausted")
    /\ path' = [path EXCEPT ![r] = "chat_error"]
    /\ UNCHANGED <<scfg, permits, rstream, rmodel, prepared, frames, parts, http>>
    /\ UNCHANGED <<wvars, xvars>>

\* the generator returns after [DONE]; finally: sem.release()
Finish(r) ==
    /\ rpc[r] = "exhausted"
    /\ permits' = sem_release(permits)
    /\ rpc' = [rpc EXCEPT ![r] = "completed"]
    /\ UNCHANGED <<scfg, rstream, rmodel, prepared, frames, outq, resume, parts, path, http>>
    /\ UNCHANGED <<wvars, xvars>>

\* where the generator is suspended holding the permit
Suspended == {"prepare", "emit", "chat", "exhausted"}

\* the client disconnects: the generator is closed where it is suspended and its locals
\* are gone; finally: sem.release()
Disconnect(r) ==
    /\ rstream[r]
    /\ rpc[r] \in Suspended
    /\ permits' = sem_release(permits)
    /\ rpc' = [rpc EXCEPT ![r] = "closed"]
    /\ prepared' = [prepared EXCEPT ![r] = NotPrepared]
    /\ outq' = [outq EXCEPT ![r] = <<>>]
    /\ resume' = [resume EXCEPT ![r] = ""]
    /\ parts' = [parts EXCEPT ![r] = <<>>]
    /\ path' = [path EXCEPT ![r] = ""]
    /\ UNCHANGED <<scfg, rstream, rmodel, frames, http>>
    /\ UNCHANGED <<wvars, xvars>>

\* the client disconnects while the generator waits at the gate: nothing was acquired
DisconnectWaiting(r) ==
    /\ rstream[r]
    /\ rpc[r] = "gate"
    /\ rpc' = [rpc EXCEPT ![r] = "closed"]
    /\ UNCHANGED <<scfg, permits, rstream, rmodel, prepared, frames, outq, resume, parts, path, http>>
    /\ UNCHANGED <<wvars, xvars>>

\* the chat endpoint before any request
SIdle ==
    /\ permits = SemSize(max_concurrent)
    /\ rpc = [r \in Reqs |-> "new"]
    /\ rstream = [r \in Reqs |-> FALSE]
    /\ rmodel = [r \in Reqs |-> "onekey-docs"]
    /\ prepared = [r \in Reqs |-> NotPrepared]
    /\ frames = [r \in Reqs |-> <<>>]
    /\ outq = [r \in Reqs |-> <<>>]
    /\ resume = [r \in Reqs |-> ""]
    /\ parts = [r \in Reqs |-> <<>>]
    /\ path = [r \in Reqs |-> ""]
    /\ http = [r \in Reqs |-> 0]

SInit ==
    /\ max_concurrent \in {0, MaxConcurrent}
    /\ chat_configured \in BOOLEAN
    /\ answer_append_sources \in BOOLEAN
    /\ SIdle

SNext ==
    \/ \E r \in Reqs : Arrive(r)
    \/ \E r \in Reqs : Acquire(r)
    \/ \E r \in Reqs : NonStreamEnd(r)
    \/ \E r \in Reqs : PrepareDirect(r)
    \/ \E r \in Reqs : PrepareOk(r)
    \/ \E r \in Reqs : PrepareTimeout(r)
    \/ \E r \in Reqs : PrepareFailed(r)
    \/ \E r \in Reqs : EmitFrame(r)
    \/ \E r \in Reqs : ProviderPart(r)
    \/ \E r \in Reqs : ProviderEnd(r)
    \/ \E r \in Reqs : ProviderRaise(r)
    \/ \E r \in Reqs : Finish(r)
    \/ \E r \in Reqs : Disconnect(r)
    \/ \E r \in Reqs : DisconnectWaiting(r)

(***************************************************************************)
(* Specifications                                                          *)
(***************************************************************************)

\* the job worker; the chat endpoint stands still in its default configuration
Init ==
    /\ WInit
    /\ max_concurrent = 0 /\ chat_configured = TRUE /\ answer_append_sources = FALSE
    /\ SIdle
    /\ XIdle
Spec == Init /\ [][WNext]_vars /\ WFair

\* the job worker alone: every job goes through the queue (jobs_backend = "worker")
WorkerInit ==
    /\ Init
    /\ jobs_backend = "worker"

WorkerNext ==
    \/ \E w \in Workers : WorkerTick(w)
    \/ \E w \in Workers : ProcessJobBegin(w)
    \/ \E w \in Workers : HandlerReturn(w)
    \/ \E w \in Workers : HandlerRaise(w)
    \/ \E w \in Workers : ProcessJobEnd(w)
    \/ \E w \in Workers : WorkerStop(w)
    \/ \E j \in Jobs : AdminSubmit(j)
    \/ ClockTick

\* the loop of main() keeps polling, awaited handlers end, the clock advances
WorkerFair ==
    /\ \A w \in Workers : WF_vars(WorkerTick(w))
    /\ \A w \in Workers : WF_vars(ProcessJobBegin(w))
    /\ \A w \in Workers : WF_vars(HandlerReturn(w) \/ HandlerRaise(w))
    /\ \A w \in Workers : WF_vars(ProcessJobEnd(w))
    /\ WF_vars(ClockTick)

WorkerSpec == WorkerInit /\ [][WorkerNext]_vars /\ WorkerFair

\* the chat endpoint; the job worker stands still in its default configuration
StreamInit ==
    /\ SInit
    /\ now = 0 /\ stale_after_s = StaleT /\ jobs_backend = "worker"
    /\ WIdle
    /\ XIdle
StreamSpec == StreamInit /\ [][SNext]_vars

(***************************************************************************)
(* Properties of the job worker                                            *)
(***************************************************************************)

\* worker w is between its claim of job j and its final status write for it
Holds(w, j) == wpc[w] \in {"claimed", "handler", "final"} /\ wjob[w] = j

\* some worker, or the in-process task of the admin endpoints, still works on j
Held(j) == (\E w \in Workers : Holds(w, j)) \/ inline[j] = "pending"

\* a handler is running for j
Executing(j) == \E w \in Workers : wpc[w] = "handler" /\ wjob[w] = j

Terminal(j) == job[j].status \in {"succeeded", "failed"}

\* C1: no job is held by two workers at the same time: between a worker's claim of
\* a job and that worker's final status write no other worker claims or executes it.
C1_OneHolder ==
    \A j \in Jobs : Cardinality({w \in Workers : Holds(w, j)}) <= 1

\* the status changes the lifecycle allows; a row is created queued or running
AllowedTransitions ==
    {<<"absent", "queued">>, <<"absent", "running">>, <<"queued", "running">>,
     <<"running", "succeeded">>, <<"running", "failed">>, <<"running", "queued">>}

\* C2: every change of a job's status is queued->running, running->succeeded,
\* running->failed or running->queued; succeeded and failed are terminal, and a
\* failed job keeps its last error string.
C2_Transitions ==
    [][\A j \in Jobs :
          /\ job[j].status # job'[j].status
                => <<job[j].status, job'[j].status>> \in AllowedTransitions
          /\ job[j].status = "failed" => job'[j].error = job[j].error]_vars

\* C3: an execution adds exactly one to attempts when it starts; when the handler
\* raised, whatever the exception, the final write sets queued if attempts <
\* max_attempts and failed otherwise, never succeeded; when it returned, succeeded.
C3_Execution ==
    [][\A w \in Workers :
          LET j == wjob[w] IN
          /\ wpc[w] = "claimed" /\ wpc'[w] = "handler"
                => job'[j].attempts = job[j].attempts + 1
          /\ wpc[w] = "final" /\ wpc'[w] = "poll" /\ job[j].status # "absent"
                => job'[j].status =
                      IF werr[w].raised
                      THEN IF job[j].attempts < MaxAttempts THEN "queued" ELSE "failed"
                      ELSE "succeeded"]_vars

\* C4: a job is started at most max_attempts times: attempts never exceeds
\* max_attempts, whatever the claims, failures, worker stops and stale requeues.
C4_BoundedAttempts ==
    \A j \in Jobs : job[j].attempts <= MaxAttempts

\* the job is queued, or was left in running, and nobody works on it
Waiting(j) == job[j].status \in {"queued", "running"} /\ ~Held(j)

\* a waiting job is eventually claimed and executed
WaitingIsExecuted ==
    \A j \in Jobs : Waiting(j) ~> Executing(j)

\* every job eventually reaches succeeded or failed
ReachesTerminal ==
    \A j \in Jobs : (job[j].status # "absent") ~> Terminal(j)

C6_Succeeded ==
    \A j \in Jobs :
        job[j].status = "succeeded"
            => /\ job[j].finished_at # NoTime
               /\ job[j].finished_at >= job[j].started_at
               /\ job[j].attempts >= 1

(***************************************************************************)
(* Properties of the chat-completions endpoint                             *)
(***************************************************************************)

\* the stream ran to its end: [DONE] was yielded and the generator returned
Completed(r) == rstream[r] /\ rpc[r] = "completed"

ContentIndexes(fs) == {i \in 1..Len(fs) : fs[i].kind = "content"}

\* role, content*, stop, sources, [DONE]
WellFramed(fs) ==
    /\ Len(fs) >= 4
    /\ fs[1].kind = "role"
    /\ \A i \in 2..(Len(fs) - 3) : fs[i].kind = "content"
    /\ fs[Len(fs) - 2].kind = "stop"
    /\ fs[Len(fs) - 1].kind = "sources"
    /\ fs[Len(fs)].kind = "done"

\* C7: every stream that runs to completion is one role frame, then content frames,
\* then one stop frame, then one sources event, then [DONE], on every path.
C7_FrameOrder ==
    \A r \in Reqs : Completed(r) => WellFramed(frames[r])

\* two streams completed, one after an upstream error behind a content frame, the
\* other after a failed prepare_rag
C7_Witness ==
    \E r, q \in Reqs :
        /\ Completed(r) /\ path[r] = "chat_error" /\ Len(frames[r]) >= 6
        /\ Completed(q) /\ path[q] \in {"prepare_failed", "prepare_timeout"}

\* the frames fs[from..to] are the text `src` of length len cut into consecutive
\* pieces of at most `size` characters
Spells(fs, from, to, src, len, size) ==
    /\ from <= to
    /\ \A i \in from..to :
          /\ fs[i].kind = "content" /\ fs[i].src = src
          /\ fs[i].hi - fs[i].lo >= 1 /\ fs[i].hi - fs[i].lo <= size
    /\ fs[from].lo = 0
    /\ fs[to].hi = len
    /\ \A i \in from..(to - 1) : fs[i].hi = fs[i + 1].lo

\* the indexes of the non-empty parts chat.stream produced
NonEmptyParts(ps) == {i \in 1..Len(ps) : ~ps[i]}

\* C8: when the chat provider raises after k content frames, the client has exactly
\* those k frames in order, then the inline error text as content frames, then the
\* stop frame, the sources event and [DONE]; the generator returns normally.
C8_UpstreamError ==
    \A r \in Reqs :
        (Completed(r) /\ path[r] = "chat_error") =>
            LET fs == frames[r]
                k  == Cardinality(NonEmptyParts(parts[r]))
            IN  /\ WellFramed(fs)
                /\ Len(fs) >= k + 5
                /\ \A i \in 2..(k + 1) : fs[i].kind = "content" /\ fs[i].src = "part"
                /\ {fs[i].lo : i \in 2..(k + 1)} = NonEmptyParts(parts[r])
                /\ \A i \in 2..k : fs[i].lo < fs[i + 1].lo
                /\ \E len \in ErrMsgLens :
                      Spells(fs, k + 2, Len(fs) - 3, "upstream_failed",
                             UpstreamFailedPrefixLen + len, ErrChunkSize)

\* the provider raised after two content frames and the error text took two frames
C8_Witness ==
    \E r \in Reqs :
        /\ Completed(r) /\ path[r] = "chat_error"
        /\ Cardinality(NonEmptyParts(parts[r])) = MaxParts
        /\ Len(frames[r]) = MaxParts + 6

InFlight == {r \in Reqs : rpc[r] = "answering" \/ rpc[r] \in Suspended}

\* C10: the requests past the gate are at most the semaphore size, which is at least
\* one; every acquired permit is released exactly once, so the permits and the
\* requests in flight always add up to the size; with nothing in flight the permit
\* count is its initial value.
C10_Gate ==
    /\ SemSize(max_concurrent) >= 1
    /\ Cardinality(InFlight) <= SemSize(max_concurrent)
    /\ permits + Cardinality(InFlight) = SemSize(max_concurrent)
    /\ InFlight = {} => permits = SemSize(max_concurrent)

\* a stream was cut by a disconnect after its role frame, a non-stream request
\* timed out, and the only permit is back
C10_Witness ==
    /\ SemSize(max_concurrent) = 1
    /\ permits = 1
    /\ \E r, q \in Reqs :
          /\ rpc[r] = "closed" /\ Len(frames[r]) >= 2
          /\ rpc[q] = "responded" /\ http[q] = 504


(***************************************************************************)
(* Part III: conversation compaction (rag/conversation.py, utils.py)       *)
(*                                                                         *)
(* A text is a sequence of characters, each character one of four kinds:   *)
(* "s" white space, "q" the double quote, "a" the apostrophe, "x" anything *)
(* else.  These are the kinds that str.strip tells apart.                  *)
(***************************************************************************)

MaxStr == 3       \* texts of the compactor's reply have at most this many characters

Chars == {"s", "q", "a", "x"}

RECURSIVE Texts(_)
Texts(n) ==
    IF n = 0 THEN {<<>>}
    ELSE Texts(n - 1) \cup {Append(t, c) : t \in {u \in Texts(n - 1) : Len(u) = n - 1}, c \in Chars}

QueryClamp == 220      \* the longest retrieval query
SummaryClamp == 1400   \* the longest memory summary
Ellipsis == "..."      \* the one character that ends a clamped text

\* values that are not texts are one-element sequences that no text equals
Missing == <<"None">>          \* None: a key the reply does not hold, no summary
NotAString == <<"number">>     \* a JSON value that is not a string

\* the raw question: the last user message, which the endpoint requires to be non-empty
Question == <<"x", "s", "x">>

RECURSIVE lstrip(_, _)
lstrip(t, cs) ==
    IF t # <<>> /\ Head(t) \in cs THEN lstrip(Tail(t), cs) ELSE t

RECURSIVE rstrip(_, _)
rstrip(t, cs) ==
    IF t # <<>> /\ t[Len(t)] \in cs THEN rstrip(SubSeq(t, 1, Len(t) - 1), cs) ELSE t

\* str.strip(cs): the characters of cs are removed from both ends
strip(t, cs) == rstrip(lstrip(t, cs), cs)

IsStr(v) == v \notin {Missing, NotAString}

clamp_text(t, max_len) ==
    IF Len(t) <= max_len THEN t ELSE Append(SubSeq(t, 1, max_len - 1), Ellipsis)

\* the rewritten query of a parsed reply, or Missing when the raw question is to be used
CleanQuery(query) ==
    IF IsStr(query) /\ strip(query, {"s"}) # <<>>
    THEN clamp_text(strip(strip(strip(query, {"s"}), {"q"}), {"a"}), QueryClamp)
    ELSE Missing

CleanSummary(summary) ==
    IF IsStr(summary) /\ strip(summary, {"s"}) # <<>>
    THEN clamp_text(strip(summary, {"s"}), SummaryClamp)
    ELSE Missing

\* what the compactor's chat call can do: raise, or reply with a text that is
\* not JSON, JSON that is not an object, or an object with any two fields
Fields(n) == {Missing, NotAString} \cup Texts(n)

Replies(n) ==
    {[kind |-> k] : k \in {"raise", "not_json", "not_object"}}
        \cup {[kind |-> "object", query |-> q, summary |-> m] :
                q \in Fields(n), m \in {Missing, <<>>, <<"x">>}}

Compaction(rq, ms, llm) == [retrieval_query |-> rq, memory_summary |-> ms, used_llm |-> llm]

RaisedCompaction == [raised |-> TRUE]

\* compact_conversation: the ConversationCompaction it returns, or RaisedCompaction
compact_conversation(enabled, user_turns, question, reply) ==
    IF ~enabled \/ user_turns < 2 THEN Compaction(question, Missing, FALSE)
    ELSE IF reply.kind = "raise" THEN RaisedCompaction
    ELSE IF reply.kind \in {"not_json", "not_object"} THEN Compaction(question, Missing, TRUE)
    ELSE Compaction(IF CleanQuery(reply.query) = Missing THEN question ELSE CleanQuery(reply.query),
                    CleanSummary(reply.summary), TRUE)

\* a compactor that lets every failure of its chat call and of the parsing escape
Compact_unguarded(has_chat, enabled, user_turns, question, reply) ==
    IF has_chat /\ enabled /\ user_turns >= 2 /\ reply.kind # "object"
    THEN RaisedCompaction
    ELSE compact_conversation(has_chat /\ enabled, user_turns, question, reply)

\* the compaction block of prepare_rag: what the pipeline goes on with
Compact(has_chat, enabled, user_turns, question, reply) ==
    IF ~(has_chat /\ enabled) THEN Compaction(question, Missing, FALSE)
    ELSE IF compact_conversation(enabled, user_turns, question, reply) = RaisedCompaction
         THEN Compaction(question, Missing, FALSE)
         ELSE compact_conversation(enabled, user_turns, question, reply)

UserTurns == {1, 2}

FIdle == fx = [pc |-> "idle"]

CompactCall ==
    /\ fx.pc = "call"
    /\ fx' = [fx EXCEPT !.pc = "done",
                        !.out = Compact(fx.has_chat, fx.enabled, fx.user_turns, Question, fx.reply)]
    /\ UNCHANGED <<wvars, svars, rag, cvars>>

CompactInit ==
    /\ now = 0 /\ stale_after_s = StaleT /\ jobs_backend = "worker" /\ WIdle
    /\ max_concurrent = 0 /\ chat_configured = TRUE /\ answer_append_sources = FALSE /\ SIdle
    /\ rag = [pc |-> "idle"] /\ CIdle
    /\ \E c \in BOOLEAN, e \in BOOLEAN, u \in UserTurns, r \in Replies(MaxStr) :
          fx = [pc |-> "call", has_chat |-> c, enabled |-> e, user_turns |-> u,
                reply |-> r, out |-> Missing]

CompactSpec == CompactInit /\ [][CompactCall]_vars

\* the compactor's chat call was made and gave a reply whose query is q
AskedWith(q) ==
    /\ fx.pc = "done" /\ fx.has_chat /\ fx.enabled /\ fx.user_turns >= 2
    /\ fx.reply.kind = "object" /\ fx.reply.query = q

\* the query field after trimming white space and the quotes around it
Cleaned(q) == strip(strip(strip(q, {"s"}), {"q"}), {"a"})

\* C13: the retrieval query that leaves the compaction step is never empty,
\* and it is the raw question whenever the reply's query field is missing,
\* is not a string, or is empty once white space and surrounding quotes are
\* trimmed.
C13_QueryNeverEmpty ==
    fx.pc = "done" =>
        /\ fx.out.retrieval_query # <<>>
        /\ \A q \in Fields(MaxStr) :
              AskedWith(q) /\ (~IsStr(q) \/ Cleaned(q) = <<>>)
                  => fx.out.retrieval_query = Question

(***************************************************************************)
(* Part IV: the retrieval pipeline (rag/pipeline.py, rag/reranker.py)      *)
(*                                                                         *)
(* One call of answer_with_rag: compaction, embedding, the allocation      *)
(* check, retrieval and filtering, reranking, the top-N cut, and the       *)
(* answer.  A chunk is its chunk_id; the store returns distinct chunks.    *)
(***************************************************************************)

MaxChunks == 3          \* how many chunks the store holds
MaxTopN == 2            \* the largest settings.rag_top_n
RerankCut == 2          \* a small settings.rerank_max_candidates
RerankDefault == 30     \* the default of BGEReranker.max_candidates
RagMaxSources == 6      \* the default of max_sources

Chunks == 1..MaxChunks

\* the requested_model argument: absent, the two known families, any other
RequestedModels == Models \cup {NoModel, "other-model"}

\* kb_allocations as the list of their top_k
AllocationLists == {<<>>, <<0>>, <<-1, 0>>, <<0, 2>>, <<1>>}

Take(seq, n) == SubSeq(seq, 1, Min(Len(seq), IF n < 0 THEN 0 ELSE n))

Range(seq) == {seq[i] : i \in DOMAIN seq}

\* the sequences without repetition over a set
DistinctSeqs(S) ==
    UNION {{f \in [1..n -> S] : \A i, j \in 1..n : i # j => f[i] # f[j]} : n \in 0..Cardinality(S)}

Perms(n) == {f \in [1..n -> 1..n] : \A i, j \in 1..n : i # j => f[i] # f[j]}

RECURSIVE FilterPositive(_)
FilterPositive(ks) ==
    IF ks = <<>> THEN <<>>
    ELSE IF Head(ks) > 0 THEN <<Head(ks)>> \o FilterPositive(Tail(ks))
         ELSE FilterPositive(Tail(ks))

\* an allocation list that keeps the allocations without quota
Allocations_unfiltered(kb_allocations) == kb_allocations

\* allocations = [a for a in (kb_allocations or []) if int(a.top_k or 0) > 0]
Allocations(kb_allocations) == FilterPositive(kb_allocations)

\* how many searches the store is asked for: one per allocation, or one,
\* for the retrieval query and for each further query of the request
SearchCount(allocations, extra) ==
    (IF allocations # <<>> THEN Len(allocations) ELSE 1) * (1 + extra)

NoAnswer == Text("None", 0)
GeneratedAnswer == Text("chat.complete", 1)

\* RagPrepared
Prepared(direct_answer, sources, messages) ==
    [direct_answer |-> direct_answer, sources |-> sources, messages |-> messages]

\* the two returns of prepare_rag that have no messages
NoSourcesPrepared(requested_model) ==
    Prepared(resolve_default_prompts(requested_model), {}, FALSE)

\* a fallback that passes every retrieved candidate on
RerankFallback_all(retrieved, top_n) == retrieved

\* except Exception: ranked = retrieved[: settings.rag_top_n]
RerankFallback(retrieved, top_n) == Take(retrieved, top_n)

\* BGEReranker.rerank; order is the ordering by descending model score
rerank(candidates, top_n, max_candidates, order) ==
    IF Len(Take(candidates, max_candidates)) <= 1
    THEN Take(Take(candidates, max_candidates), top_n)
    ELSE Take([i \in 1..Len(Take(candidates, max_candidates)) |->
                    Take(candidates, max_candidates)[order[i]]], top_n)

\* the orderings the model's scores can give for these candidates
Orders(candidates, max_candidates) == Perms(Len(Take(candidates, max_candidates)))

\* _build_sources: one source per chunk, at most max_sources
BuildSources(topn) == Range(Take(topn, RagMaxSources))

\* prepare_rag from the top-N cut on: the RagPrepared it returns
PrepareResult(requested_model, ranked, top_n) ==
    IF Take(ranked, top_n) = <<>>
    THEN NoSourcesPrepared(requested_model)
    ELSE Prepared(NoAnswer, BuildSources(Take(ranked, top_n)), TRUE)

\* an answer step that asks the chat provider whatever was prepared
AnswerAsksChat_always(prep, has_chat) == has_chat

\* answer_with_rag calls chat.complete
AnswerAsksChat(prep, has_chat) ==
    prep.direct_answer = NoAnswer /\ prep.messages /\ has_chat

\* the RagAnswer of the returns of answer_with_rag that do not call chat.complete
AnswerWithoutChat(requested_model, prep) ==
    IF prep.direct_answer # NoAnswer
    THEN [answer |-> prep.direct_answer, sources |-> prep.sources]
    ELSE IF ~prep.messages
         THEN [answer |-> resolve_default_prompts(requested_model), sources |-> {}]
         ELSE [answer |-> resolve_default_prompts(requested_model), sources |-> prep.sources]

NoResult == [answer |-> NoAnswer, sources |-> {}]

RagIdle == rag = [pc |-> "idle"]

\* the compaction block
PCompact ==
    /\ rag.pc = "compact"
    /\ \E reply \in Replies(1) :
          LET asked == rag.has_chat /\ rag.enabled
              out == Compact(rag.has_chat, rag.enabled, 2, Question, reply)
          IN  /\ ~asked => reply.kind = "raise"
              /\ rag' = IF out = RaisedCompaction
                        THEN [rag EXCEPT !.pc = "raised", !.failure = "compaction",
                                         !.compaction = reply.kind]
                        ELSE [rag EXCEPT !.pc = "embed",
                                         !.compaction = IF asked THEN reply.kind ELSE "skipped",
                                         !.retrieval_query = out.retrieval_query,
                                         !.memory_summary = out.memory_summary]
    /\ UNCHANGED <<wvars, svars, fx, cvars>>

\* embeddings.embed_query returns
PEmbed ==
    /\ rag.pc = "embed"
    /\ rag' = [rag EXCEPT !.pc = "allocate", !.embedded = TRUE]
    /\ UNCHANGED <<wvars, svars, fx, cvars>>

\* embeddings.embed_query raises: nothing in prepare_rag catches it
PEmbedRaise ==
    /\ rag.pc = "embed"
    /\ rag' = [rag EXCEPT !.pc = "raised", !.failure = "embedding"]
    /\ UNCHANGED <<wvars, svars, fx, cvars>>

\* if strict_kb and not allocations: return
PStrictReturn ==
    /\ rag.pc = "allocate"
    /\ rag.strict_kb /\ Allocations(rag.kb_allocations) = <<>>
    /\ rag' = [rag EXCEPT !.pc = "prepared",
                          !.prepared = NoSourcesPrepared(rag.requested_model)]
    /\ UNCHANGED <<wvars, svars, fx, cvars>>

\* the searches, their merge and the metadata and address filters
PRetrieve ==
    /\ rag.pc = "allocate"
    /\ ~(rag.strict_kb /\ Allocations(rag.kb_allocations) = <<>>)
    /\ \E extra \in {0, 1}, found \in DistinctSeqs(Chunks) :
          rag' = [rag EXCEPT !.pc = "rerank",
                             !.queries = SearchCount(Allocations(rag.kb_allocations), extra),
                             !.retrieved = found]
    /\ UNCHANGED <<wvars, svars, fx, cvars>>

\* a search raises: nothing in prepare_rag catches it
PRetrieveRaise ==
    /\ rag.pc = "allocate"
    /\ ~(rag.strict_kb /\ Allocations(rag.kb_allocations) = <<>>)
    /\ rag' = [rag EXCEPT !.pc = "raised", !.failure = "retrieval", !.queries = 1]
    /\ UNCHANGED <<wvars, svars, fx, cvars>>

\* the rest of prepare_rag once ranked is known
Rank(how, ranked) ==
    [rag EXCEPT !.pc = "prepared", !.rerank = how, !.ranked = ranked,
                !.prepared = PrepareResult(rag.requested_model, ranked, rag.top_n)]

\* no reranker is configured
PRerankNone ==
    /\ rag.pc = "rerank" /\ ~rag.has_reranker
    /\ rag' = Rank("none", rag.retrieved)
    /\ UNCHANGED <<wvars, svars, fx, cvars>>

\* reranker.rerank returns
PRerankOk ==
    /\ rag.pc = "rerank" /\ rag.has_reranker
    /\ \E order \in Orders(rag.retrieved, rag.max_candidates) :
          rag' = Rank("ok", rerank(rag.retrieved, rag.top_n, rag.max_candidates, order))
    /\ UNCHANGED <<wvars, svars, fx, cvars>>

\* reranker.rerank raises
PRerankRaise ==
    /\ rag.pc = "rerank" /\ rag.has_reranker
    /\ rag' = Rank("raised", RerankFallback(rag.retrieved, rag.top_n))
    /\ UNCHANGED <<wvars, svars, fx, cvars>>

\* answer_with_rag returns without calling chat.complete
PAnswerFixed ==
    /\ rag.pc = "prepared"
    /\ ~AnswerAsksChat(rag.prepared, rag.has_chat)
    /\ rag' = [rag EXCEPT !.pc = "returned",
                          !.result = AnswerWithoutChat(rag.requested_model, rag.prepared)]
    /\ UNCHANGED <<wvars, svars, fx, cvars>>

\* chat.complete returns and its content is the answer
PAnswerChat ==
    /\ rag.pc = "prepared"
    /\ AnswerAsksChat(rag.prepared, rag.has_chat)
    /\ rag' = [rag EXCEPT !.pc = "returned", !.chat_asked = TRUE,
                          !.result = [answer |-> GeneratedAnswer, sources |-> rag.prepared.sources]]
    /\ UNCHANGED <<wvars, svars, fx, cvars>>

\* chat.complete raises: answer_with_rag does not catch it
PAnswerChatRaise ==
    /\ rag.pc = "prepared"
    /\ AnswerAsksChat(rag.prepared, rag.has_chat)
    /\ rag' = [rag EXCEPT !.pc = "raised", !.chat_asked = TRUE, !.failure = "chat"]
    /\ UNCHANGED <<wvars, svars, fx, cvars>>

PipelineInit ==
    /\ now = 0 /\ stale_after_s = StaleT /\ jobs_backend = "worker" /\ WIdle
    /\ max_concurrent = 0 /\ chat_configured = TRUE /\ answer_append_sources = FALSE /\ SIdle
    /\ FIdle /\ CIdle
    /\ \E m \in RequestedModels, strict \in BOOLEAN, kb \in AllocationLists,
          c \in BOOLEAN, rr \in BOOLEAN, e \in BOOLEAN,
          n \in 1..MaxTopN, mc \in {RerankCut, RerankDefault} :
          rag = [pc |-> "compact", requested_model |-> m, strict_kb |-> strict,
                 kb_allocations |-> kb, has_chat |-> c, has_reranker |-> rr, enabled |-> e,
                 top_n |-> n, max_candidates |-> mc,
                 compaction |-> "", retrieval_query |-> Question, memory_summary |-> Missing,
                 embedded |-> FALSE, queries |-> 0, retrieved |-> <<>>, rerank |-> "",
                 ranked |-> <<>>, prepared |-> Prepared(NoAnswer, {}, FALSE),
                 chat_asked |-> FALSE, result |-> NoResult, failure |-> ""]

PipelineNext ==
    \/ PCompact
    \/ PEmbed
    \/ PEmbedRaise
    \/ PStrictReturn
    \/ PRetrieve
    \/ PRetrieveRaise
    \/ PRerankNone
    \/ PRerankOk
    \/ PRerankRaise
    \/ PAnswerFixed
    \/ PAnswerChat
    \/ PAnswerChatRaise

PipelineSpec == PipelineInit /\ [][PipelineNext]_vars

\* the final top-N of the call
TopN == Take(rag.ranked, rag.top_n)

\* the fixed no-sources message of a requested model
KeyedMessage(m) ==
    IF m = "tx-analyzer" THEN "no_sources:tx-analyzer"
    ELSE IF m = "other-model" THEN "no_sources:generic"
    ELSE "no_sources:onekey-docs"

\* C11: with strict_kb and no allocation whose top_k is positive, no vector
\* or hybrid search is ever executed, and what prepare_rag returns is the
\* no-sources path: direct_answer the fixed message, sources empty, no
\* messages.
C11_StrictNoSources ==
    (rag.pc # "idle" /\ rag.strict_kb
        /\ \A i \in DOMAIN rag.kb_allocations : rag.kb_allocations[i] <= 0)
    => /\ rag.queries = 0
       /\ rag.retrieved = <<>>
       /\ rag.pc \in {"prepared", "returned"} =>
             /\ rag.prepared.direct_answer.src = KeyedMessage(rag.requested_model)
             /\ rag.prepared.sources = {}
             /\ ~rag.prepared.messages

C11_Witness ==
    /\ rag.pc = "returned" /\ rag.strict_kb /\ rag.kb_allocations = <<-1, 0>>
    /\ rag.embedded /\ rag.queries = 0
    /\ rag.result.answer.src = "no_sources:onekey-docs"

\* C12: whenever the top-N is empty after retrieval, filtering and
\* reranking, the chat provider is not asked for an answer and the answer
\* returned is the fixed no-sources message of the requested model with no
\* sources; and an answer generated by the model is only ever returned for
\* a call without failure whose top-N is not empty.
C12_NoSourcesAnswer ==
    /\ (rag.pc # "idle" /\ rag.rerank # "" /\ TopN = <<>>) =>
          /\ ~rag.chat_asked
          /\ rag.pc # "raised"
          /\ rag.pc = "returned" =>
                /\ rag.result.answer.src = KeyedMessage(rag.requested_model)
                /\ rag.result.sources = {}
    /\ (rag.pc # "idle" /\ rag.result.answer = GeneratedAnswer) =>
          rag.failure = "" /\ TopN # <<>> /\ rag.chat_asked
    /\ (rag.pc # "idle" /\ rag.failure # "") => rag.result = NoResult

C12_Witness ==
    /\ rag.pc = "returned" /\ rag.has_chat /\ rag.rerank = "ok" /\ rag.retrieved = <<>>
    /\ rag.requested_model = "tx-analyzer"
    /\ rag.result.answer.src = "no_sources:tx-analyzer"

\* C14: a compaction whose chat call raises, or whose reply is not JSON or
\* not a JSON object, never fails the call: the pipeline goes on to the
\* embedding with the raw question as retrieval query and without summary.
C14_CompactorContained ==
    (rag.pc # "idle" /\ rag.compaction \in {"raise", "not_json", "not_object"}) =>
        /\ rag.failure # "compaction"
        /\ rag.pc # "compact" /\ (rag.pc = "embed" \/ rag.embedded \/ rag.failure = "embedding")
        /\ rag.retrieval_query = Question
        /\ rag.memory_summary = Missing

C14_Witness ==
    /\ rag.pc = "returned" /\ rag.compaction = "raise" /\ rag.has_chat /\ rag.enabled
    /\ rag.queries > 0 /\ rag.retrieved # <<>>

\* C15: after a reranker failure the ranking is the first rag_top_n
\* retrieved candidates in their order and the call fails only if a later
\* step fails; a reranker that succeeds gives at most top_n of its
\* candidates, none of them twice.
C15_RerankFallback ==
    /\ (rag.pc # "idle" /\ rag.rerank = "raised") =>
          /\ Len(rag.ranked) = Min(Len(rag.retrieved), rag.top_n)
          /\ \A i \in DOMAIN rag.ranked : rag.ranked[i] = rag.retrieved[i]
          /\ rag.pc \in {"prepared", "returned"} \/ (rag.pc = "raised" /\ rag.failure = "chat")
    /\ (rag.pc # "idle" /\ rag.rerank = "ok") =>
          /\ Len(rag.ranked) <= rag.top_n
          /\ Range(rag.ranked) \subseteq Range(rag.retrieved)
          /\ \A i, j \in DOMAIN rag.ranked : i # j => rag.ranked[i] # rag.ranked[j]

C15_Witness ==
    /\ rag.pc = "returned" /\ rag.rerank = "raised" /\ rag.chat_asked
    /\ Len(rag.retrieved) = 3 /\ rag.top_n = 2 /\ rag.ranked = Take(rag.retrieved, 2)

(***************************************************************************)
(* Part V: the merge of candidate groups (rag/pipeline.py)                 *)
(***************************************************************************)

MaxIds == 3         \* chunk ids of the candidates
MaxScore == 2       \* scores of the candidates
MaxGroupLen == 2    \* candidates of one group
MaxK == 3           \* the largest k

\* RetrievedChunk, as far as the merge reads it
Candidates == [chunk_id : 1..MaxIds, score : 1..MaxScore]

Groups == UNION {[1..n -> Candidates] : n \in 0..MaxGroupLen}

RECURSIVE Flatten(_)
Flatten(groups) ==
    IF groups = <<>> THEN <<>> ELSE Head(groups) \o Flatten(Tail(groups))

Reverse(seq) == [i \in 1..Len(seq) |-> seq[Len(seq) + 1 - i]]

\* by_id after one more candidate; a dict keeps a key where it was first put
Put(by_id, c) ==
    IF \E i \in DOMAIN by_id : by_id[i].chunk_id = c.chunk_id
    THEN [i \in DOMAIN by_id |->
            IF by_id[i].chunk_id = c.chunk_id /\ c.score > by_id[i].score THEN c ELSE by_id[i]]
    ELSE Append(by_id, c)

RECURSIVE ById(_, _)
ById(by_id, cs) ==
    IF cs = <<>> THEN by_id ELSE ById(Put(by_id, Head(cs)), Tail(cs))

\* c put into a list sorted by descending score, after the elements of equal score
InsertByScore(sorted, c) ==
    LET before == {i \in DOMAIN sorted : sorted[i].score >= c.score}
        n == Cardinality(before)
    IN  SubSeq(sorted, 1, n) \o <<c>> \o SubSeq(sorted, n + 1, Len(sorted))

\* list.sort(key=score, reverse=True): stable, equal scores keep their order
RECURSIVE SortByScore(_)
SortByScore(cs) ==
    IF cs = <<>> THEN <<>>
    ELSE InsertByScore(SortByScore(SubSeq(cs, 1, Len(cs) - 1)), cs[Len(cs)])

\* _merge_candidates(candidates, k=k)
merge_candidates(groups, k) == Take(SortByScore(ById(<<>>, Flatten(groups))), k)

\* one merge of two groups, and the merge of the same groups produced the other way round
MergeCall ==
    /\ fx.pc = "call"
    /\ fx' = [fx EXCEPT !.pc = "done",
                        !.out = merge_candidates(fx.groups, fx.k),
                        !.out_rev = merge_candidates(Reverse(fx.groups), fx.k)]
    /\ UNCHANGED <<wvars, svars, rag, cvars>>

MergeInit ==
    /\ now = 0 /\ stale_after_s = StaleT /\ jobs_backend = "worker" /\ WIdle
    /\ max_concurrent = 0 /\ chat_configured = TRUE /\ answer_append_sources = FALSE /\ SIdle
    /\ RagIdle /\ CIdle
    /\ \E g1 \in Groups, g2 \in Groups, k \in 1..MaxK :
          fx = [pc |-> "call", groups |-> <<g1, g2>>, k |-> k, out |-> <<>>, out_rev |-> <<>>]

MergeSpec == MergeInit /\ [][MergeCall]_vars

\* the highest score a chunk id has in any group
MaxScoreOf(groups, id) ==
    CHOOSE s \in 1..MaxScore :
        /\ \E i \in DOMAIN Flatten(groups) :
              Flatten(groups)[i].chunk_id = id /\ Flatten(groups)[i].score = s
        /\ \A i \in DOMAIN Flatten(groups) :
              Flatten(groups)[i].chunk_id = id => Flatten(groups)[i].score <= s

\* at most k chunks, of distinct ids, each with its highest score, by descending score
MergedWell ==
    fx.pc = "done" =>
        /\ Len(fx.out) <= fx.k
        /\ \A i, j \in DOMAIN fx.out : i # j => fx.out[i].chunk_id # fx.out[j].chunk_id
        /\ \A i \in DOMAIN fx.out :
              fx.out[i].score = MaxScoreOf(fx.groups, fx.out[i].chunk_id)
        /\ \A i, j \in DOMAIN fx.out : i < j => fx.out[i].score >= fx.out[j].score

\* chunks of equal score come with the higher chunk id first
TiesByChunkId ==
    fx.pc = "done" =>
        \A i, j \in DOMAIN fx.out :
            (i < j /\ fx.out[i].score = fx.out[j].score)
                => fx.out[i].chunk_id > fx.out[j].chunk_id

\* the groups in the other order merge to the same result
OrderIndependent == fx.pc = "done" => fx.out = fx.out_rev

\* C16: the merge returns at most K chunks of pairwise distinct chunk ids,
\* each with the highest score it has in any group, ordered by descending
\* score and, among equal scores, by descending chunk id; and the result
\* does not depend on the order of the groups.
C16_Merge == MergedWell /\ TiesByChunkId /\ OrderIndependent

(***************************************************************************)
(* Part VI: vector and hybrid retrieval (rag/pipeline.py and the store)    *)
(*                                                                         *)
(* The store's similarity_search and hybrid_search follow the retrieval    *)
(* engine of the specification: nearest chunks by vector score; in hybrid  *)
(* mode the vector and the lexical list, each min-max normalised, a        *)
(* missing side counting 0, weighted sum, descending, higher chunk id      *)
(* first among equals, top k.  Scores are integers; a hybrid score is the  *)
(* numerator of the weighted sum over the common denominator of one search.*)
(***************************************************************************)

MaxVec == 3      \* vector scores 1..MaxVec
MaxLex == 1      \* lexical scores 0..MaxLex, 0: the text search does not find the chunk
MaxTopK == 3     \* the largest rag_top_k, hybrid_vector_k and hybrid_bm25_k
MaxAlloc == 2    \* the largest top_k of the allocation

\* the chunks of the workspace with their scores for the query
Stores == [Chunks -> [vec : 1..MaxVec, lex : 0..MaxLex]]

\* (vector_weight, bm25_weight)
Weights == {<<1, 0>>, <<1, 1>>, <<0, 1>>}

Max(a, b) == IF a > b THEN a ELSE b

\* the element that comes first: highest key, then highest chunk id
Best(S, key) ==
    CHOOSE c \in S : \A d \in S : key[c] > key[d] \/ (key[c] = key[d] /\ c >= d)

RECURSIVE Ranked(_, _)
Ranked(S, key) ==
    IF S = {} THEN <<>>
    ELSE <<Best(S, key)>> \o Ranked(S \ {Best(S, key)}, key)

Scored(ids, key) == [i \in DOMAIN ids |-> [chunk_id |-> ids[i], score |-> key[ids[i]]]]

Ids(cs) == [i \in DOMAIN cs |-> cs[i].chunk_id]

VecKey(store) == [c \in Chunks |-> store[c].vec]
LexKey(store) == [c \in Chunks |-> store[c].lex]

\* the k nearest chunks
similarity_search(store, k) ==
    Scored(Take(Ranked(Chunks, VecKey(store)), k), VecKey(store))

\* the vector list and the lexical list of a hybrid search
VecList(store, vector_k) == Range(Take(Ranked(Chunks, VecKey(store)), vector_k))
LexList(store, bm25_k) ==
    Range(Take(Ranked({c \in Chunks : store[c].lex > 0}, LexKey(store)), bm25_k))

Lowest(S, key) == CHOOSE v \in {key[c] : c \in S} : \A c \in S : key[c] >= v
Highest(S, key) == CHOOSE v \in {key[c] : c \in S} : \A c \in S : key[c] <= v

\* min-max normalisation over a list, as numerator and denominator; a list
\* whose scores are all equal normalises to 1
NormDen(S, key) ==
    IF S = {} \/ Highest(S, key) = Lowest(S, key) THEN 1 ELSE Highest(S, key) - Lowest(S, key)
NormNum(S, key, c) ==
    IF c \notin S THEN 0
    ELSE IF Highest(S, key) = Lowest(S, key) THEN 1 ELSE key[c] - Lowest(S, key)

HybridKey(store, V, L, vector_weight, bm25_weight) ==
    [c \in Chunks |->
        vector_weight * NormNum(V, VecKey(store), c) * NormDen(L, LexKey(store))
          + bm25_weight * NormNum(L, LexKey(store), c) * NormDen(V, VecKey(store))]

hybrid_search(store, k, vector_k, bm25_k, vector_weight, bm25_weight) ==
    LET V == VecList(store, vector_k)
        L == LexList(store, bm25_k)
        key == HybridKey(store, V, L, vector_weight, bm25_weight)
    IN  Scored(Take(Ranked(V \cup L, key), k), key)

\* a retrieval that gives the store the two weights the other way round
retrieve_for_query_swapped(mode, store, top_k, cfg) ==
    IF top_k > 0
    THEN merge_candidates(
            <<IF mode = "hybrid"
              THEN hybrid_search(store, Max(1, top_k), Min(cfg.hybrid_vector_k, Max(1, top_k)),
                                 Min(cfg.hybrid_bm25_k, Max(1, top_k)),
                                 cfg.hybrid_bm25_weight, cfg.hybrid_vector_weight)
              ELSE similarity_search(store, Max(1, top_k))>>,
            cfg.rag_top_k)
    ELSE IF mode = "hybrid"
         THEN hybrid_search(store, cfg.rag_top_k, cfg.hybrid_vector_k, cfg.hybrid_bm25_k,
                            cfg.hybrid_bm25_weight, cfg.hybrid_vector_weight)
         ELSE similarity_search(store, cfg.rag_top_k)

\* _retrieve_for_query with one allocation of top_k > 0, or with none (top_k = 0)
retrieve_for_query(mode, store, top_k, cfg) ==
    IF top_k > 0
    THEN merge_candidates(
            <<IF mode = "hybrid"
              THEN hybrid_search(store, Max(1, top_k), Min(cfg.hybrid_vector_k, Max(1, top_k)),
                                 Min(cfg.hybrid_bm25_k, Max(1, top_k)),
                                 cfg.hybrid_vector_weight, cfg.hybrid_bm25_weight)
              ELSE similarity_search(store, Max(1, top_k))>>,
            cfg.rag_top_k)
    ELSE IF mode = "hybrid"
         THEN hybrid_search(store, cfg.rag_top_k, cfg.hybrid_vector_k, cfg.hybrid_bm25_k,
                            cfg.hybrid_vector_weight, cfg.hybrid_bm25_weight)
         ELSE similarity_search(store, cfg.rag_top_k)

\* the same query retrieved in both modes
RetrieveCall ==
    /\ fx.pc = "call"
    /\ fx' = [fx EXCEPT !.pc = "done",
                        !.hybrid = Ids(retrieve_for_query("hybrid", fx.store, fx.top_k, fx.cfg)),
                        !.vector = Ids(retrieve_for_query("vector", fx.store, fx.top_k, fx.cfg))]
    /\ UNCHANGED <<wvars, svars, rag, cvars>>

RetrieveInit ==
    /\ now = 0 /\ stale_after_s = StaleT /\ jobs_backend = "worker" /\ WIdle
    /\ max_concurrent = 0 /\ chat_configured = TRUE /\ answer_append_sources = FALSE /\ SIdle
    /\ RagIdle /\ CIdle
    /\ \E store \in Stores, a \in 0..MaxAlloc, k \in 1..MaxTopK, vk \in 1..MaxTopK,
          bk \in 1..MaxTopK, w \in Weights :
          fx = [pc |-> "call", store |-> store, top_k |-> a,
                cfg |-> [rag_top_k |-> k, hybrid_vector_k |-> vk, hybrid_bm25_k |-> bk,
                         hybrid_vector_weight |-> w[1], hybrid_bm25_weight |-> w[2]],
                hybrid |-> <<>>, vector |-> <<>>]

RetrieveSpec == RetrieveInit /\ [][RetrieveCall]_vars

\* the call asked for vector weight 1 and lexical weight 0
VectorOnlyWeights ==
    fx.pc = "done" /\ fx.cfg.hybrid_vector_weight = 1 /\ fx.cfg.hybrid_bm25_weight = 0

\* the k, vector_k and bm25_k of the search of the call
SearchK == IF fx.top_k > 0 THEN fx.top_k ELSE fx.cfg.rag_top_k
SearchVectorK == IF fx.top_k > 0 THEN Min(fx.cfg.hybrid_vector_k, fx.top_k) ELSE fx.cfg.hybrid_vector_k
SearchBm25K == IF fx.top_k > 0 THEN Min(fx.cfg.hybrid_bm25_k, fx.top_k) ELSE fx.cfg.hybrid_bm25_k

MaxRequests == 4       \* how many requests and direct upserts start

TypedConfidence == 9   \* confidence 0.9, in tenths: a contract type was extracted
UrlConfidence == 7     \* confidence 0.7: the protocol of the URL only
ManualConfidence == 10 \* confidence 1.0: the default of upsert_contract_info

AddressInputs == {"0xa", "0xA", "0xa+", "bad"}

\* str.lower().strip()
Lower(address) == IF address = "0xA" THEN "0xa" ELSE address

\* CONTRACT_ADDRESS_RE.match: the pattern at the start of the text, anything after it
PrefixMatch(address) == address \in {"0xa", "0xA", "0xa+"}

\* the chunks of the knowledge base that hold the address: a row of an address
\* table on a page of a known protocol, a longer hexadecimal text on a page
\* of another known protocol, and a page of no known protocol
ChunkRows ==
    {[id |-> 1, holds |-> "0xa", protocol |-> "Aave", contract_type |-> "Gateway"],
     [id |-> 2, holds |-> "0xa+", protocol |-> "Uniswap", contract_type |-> ""],
     [id |-> 3, holds |-> "0xa", protocol |-> "", contract_type |-> ""]}

\* LOWER(chunk_text) LIKE LOWER('%address%')
Contains(row, address) ==
    \/ row.holds = Lower(address)
    \/ row.holds = "0xa+" /\ Lower(address) = "0xa"

\* extract_addresses_from_chunk: every match of the pattern, lower-cased
extract_addresses_from_chunk(row) == {"0xa"}

NoInfo == [address |-> "", protocol |-> "", contract_type |-> "", confidence |-> 0]

\* build_contract_info_from_chunk
build_contract_info_from_chunk(row, address) ==
    IF row.protocol = "" THEN NoInfo
    ELSE [address |-> Lower(address), protocol |-> row.protocol,
          contract_type |-> row.contract_type,
          confidence |-> IF row.contract_type # "" THEN TypedConfidence ELSE UrlConfidence]

\* the contract infos a search for the address can end with: the first row,
\* in the unspecified order of the rows, from which an info can be built
Found(address) ==
    {build_contract_info_from_chunk(row, address) :
        row \in {r \in ChunkRows : Contains(r, address) /\ r.protocol # ""}}

\* a lookup that never finds a row
get_contract_info_miss(table, address) == NoRow

\* get_contract_info
get_contract_info(table, address) ==
    IF ~PrefixMatch(Lower(address)) THEN NoRow ELSE table[Lower(address)]

Row(info, seq) ==
    [protocol |-> info.protocol, contract_type |-> info.contract_type,
     confidence |-> info.confidence, seq |-> seq]

\* INSERT ... ON CONFLICT (address) DO UPDATE: the row replaces the stored one
upsert_contract_info(table, info) ==
    [table EXCEPT ![Lower(info.address)] = Row(info, table[Lower(info.address)].seq + 1)]

\* the rule of the index: keep the row of higher confidence, of two equal the later
Keep(kept, info) ==
    LET key == Lower(info.address)
        row == Row(info, idx[key].seq + 1)
    IN  [kept EXCEPT ![key] = IF kept[key] = NoRow \/ row.confidence >= kept[key].confidence
                               THEN row ELSE kept[key]]

\* whether the table takes the row: the width of the address column is not
\* known, a text longer than an address may be refused
StoreAccepts(address) == IF Lower(address) = "0xa+" THEN BOOLEAN ELSE {TRUE}

Request(kind, address, auto_learn, pc, found, resp) ==
    [pc |-> pc, kind |-> kind, address |-> address, auto_learn |-> auto_learn,
     found |-> found, resp |-> resp, wrote |-> FALSE]

NoResponse == [status |-> 0, source |-> "", info |-> NoInfo, seq |-> 0]

Response(status, source, info, seq) ==
    [status |-> status, source |-> source, info |-> info, seq |-> seq]

InfoOf(address, row) ==
    [address |-> Lower(address), protocol |-> row.protocol,
     contract_type |-> row.contract_type, confidence |-> row.confidence]

\* get_contract up to the end of its query on the index: 400, the row of the
\* index, or on to the reverse lookup
GetStart(g) ==
    /\ g \in {"g1", "g2"} /\ creq[g].pc = "idle" /\ nreq < MaxRequests
    /\ \E address \in AddressInputs, auto_learn \in BOOLEAN :
          creq' = [creq EXCEPT ![g] =
              IF ~PrefixMatch(Lower(address))
              THEN Request("get", address, auto_learn, "done", NoInfo,
                           Response(400, "", NoInfo, 0))
              ELSE IF get_contract_info(idx, Lower(address)) # NoRow
              THEN Request("get", address, auto_learn, "done", NoInfo,
                           Response(200, "index",
                                    InfoOf(address, get_contract_info(idx, Lower(address))),
                                    get_contract_info(idx, Lower(address)).seq))
              ELSE Request("get", address, auto_learn, "lookup", NoInfo, NoResponse)]
    /\ nreq' = nreq + 1
    /\ UNCHANGED <<idx, best, wvars, svars, rag, fx>>

\* _rag_reverse_lookup: the search of the chunks and the build of the info
GetLookup(g) ==
    /\ creq[g].pc = "lookup" /\ creq[g].kind = "get"
    /\ \/ /\ Found(creq[g].address) = {}
          /\ creq' = [creq EXCEPT ![g].pc = "done",
                                  ![g].resp = Response(404, "", NoInfo, 0)]
       \/ \E info \in Found(creq[g].address) :
             creq' = [creq EXCEPT ![g].found = info,
                                  ![g].pc = IF creq[g].auto_learn THEN "learn" ELSE "done",
                                  ![g].resp = Response(200, "rag", info, 0)]
    /\ UNCHANGED <<idx, best, nreq, wvars, svars, rag, fx>>

\* the upsert of a request that learns
Learn(r) ==
    /\ creq[r].pc = "learn"
    /\ \E accepted \in StoreAccepts(creq[r].found.address) :
          IF accepted
          THEN /\ idx' = upsert_contract_info(idx, creq[r].found)
               /\ best' = Keep(best, creq[r].found)
               /\ creq' = [creq EXCEPT ![r].pc = "done", ![r].wrote = TRUE,
                                       ![r].resp.seq = idx[Lower(creq[r].found.address)].seq + 1]
          ELSE /\ creq' = [creq EXCEPT ![r].pc = "done"]
               /\ UNCHANGED <<idx, best>>
    /\ UNCHANGED <<nreq, wvars, svars, rag, fx>>

\* _rag_reverse_lookup: auto-learn, the failure of the upsert only logged
GetLearn(g) ==
    /\ g \in {"g1", "g2"}
    /\ Learn(g)

\* the response is sent
Finish_request(r) ==
    /\ creq[r].pc = "done"
    /\ creq' = [creq EXCEPT ![r] = NoRequest]
    /\ UNCHANGED <<idx, best, nreq, wvars, svars, rag, fx>>

\* prepare_rag, auto-learn: an address of the question, chunks that hold it,
\* and the query whether the index has it
QueryStart ==
    /\ creq["q"].pc = "idle" /\ nreq < MaxRequests
    /\ \E address \in {"0xa", "0xa+"} :
          \/ /\ get_contract_info(idx, address) # NoRow \/ Found(address) = {}
             /\ creq' = [creq EXCEPT !["q"] =
                            Request("query", address, TRUE, "done", NoInfo, NoResponse)]
          \/ /\ get_contract_info(idx, address) = NoRow
             /\ \E info \in Found(address) :
                   creq' = [creq EXCEPT !["q"] =
                               Request("query", address, TRUE, "learn", info, NoResponse)]
    /\ nreq' = nreq + 1
    /\ UNCHANGED <<idx, best, wvars, svars, rag, fx>>

\* prepare_rag, auto-learn: the upsert, its failure only logged
QueryLearn ==
    /\ creq["q"].pc = "learn" /\ creq["q"].kind = "query"
    /\ Learn("q")

\* batch_build_contract_index for one chunk and one address of it: the query
\* whether the index has it and the build of the info
BatchStart ==
    /\ creq["b"].pc = "idle" /\ nreq < MaxRequests
    /\ \E row \in ChunkRows, dry_run \in BOOLEAN :
          \E address \in extract_addresses_from_chunk(row) :
             creq' = [creq EXCEPT !["b"] =
                 IF get_contract_info(idx, address) # NoRow
                        \/ build_contract_info_from_chunk(row, address) = NoInfo
                        \/ dry_run
                 THEN Request("batch", address, ~dry_run, "done", NoInfo, NoResponse)
                 ELSE Request("batch", address, TRUE, "learn",
                              build_contract_info_from_chunk(row, address), NoResponse)]
    /\ nreq' = nreq + 1
    /\ UNCHANGED <<idx, best, wvars, svars, rag, fx>>

\* batch_build_contract_index: the upsert, its failure only logged
BatchLearn ==
    /\ creq["b"].pc = "learn" /\ creq["b"].kind = "batch"
    /\ Learn("b")

\* upsert_contract_info called with an entry written by hand
DirectUpsert ==
    /\ nreq < MaxRequests
    /\ \E address \in AddressInputs, accepted \in BOOLEAN :
          LET info == [address |-> address, protocol |-> "Manual", contract_type |-> "",
                       confidence |-> ManualConfidence]
          IN  /\ accepted \in StoreAccepts(address)
              /\ IF accepted
                 THEN /\ idx' = upsert_contract_info(idx, info)
                      /\ best' = Keep(best, info)
                 ELSE UNCHANGED <<idx, best>>
    /\ nreq' = nreq + 1
    /\ UNCHANGED <<creq, wvars, svars, rag, fx>>

IndexInit ==
    /\ now = 0 /\ stale_after_s = StaleT /\ jobs_backend = "worker" /\ WIdle
    /\ max_concurrent = 0 /\ chat_configured = TRUE /\ answer_append_sources = FALSE /\ SIdle
    /\ RagIdle /\ FIdle
    /\ CIdle

IndexNext ==
    \/ \E g \in {"g1", "g2"} : GetStart(g)
    \/ \E g \in {"g1", "g2"} : GetLookup(g)
    \/ \E g \in {"g1", "g2"} : GetLearn(g)
    \/ \E r \in IndexReqs : Finish_request(r)
    \/ QueryStart
    \/ QueryLearn
    \/ BatchStart
    \/ BatchLearn
    \/ DirectUpsert

IndexSpec == IndexInit /\ [][IndexNext]_vars

\* ^0x[0-9a-f]{40}$ and lower case
WellFormed(key) == key = "0xa"

\* C18: every address under which the contract index holds a row is a
\* lower-case text of exactly "0x" and forty hexadecimal digits.
C18_StoredAddresses ==
    \A k \in StoredKeys : idx[k] # NoRow => WellFormed(k)

\* a GET for a well-formed address, in either letter case, that has ended
GetEnded(g) ==
    /\ creq[g].pc = "done" /\ creq[g].kind = "get"
    /\ WellFormed(Lower(creq[g].address))

\* what a GET that found the address by reverse lookup returns and writes
LearnedOnce(g) ==
    (GetEnded(g) /\ creq[g].resp.source = "rag") =>
        /\ creq[g].resp.status = 200
        /\ creq[g].wrote <=> creq[g].auto_learn
        /\ creq[g].auto_learn =>
              /\ idx["0xa"] # NoRow
              /\ idx["0xa"].seq = creq[g].resp.seq =>
                    /\ idx["0xa"].protocol = creq[g].resp.info.protocol
                    /\ idx["0xa"].contract_type = creq[g].resp.info.contract_type

\* a GET that starts when the index has the address answers from the index
AnswersFromIndex(g) ==
    (/\ creq[g].pc = "idle" /\ creq'[g].pc # "idle"
     /\ WellFormed(Lower(creq'[g].address)) /\ idx["0xa"] # NoRow)
    => /\ creq'[g].pc = "done"
       /\ creq'[g].resp.status = 200 /\ creq'[g].resp.source = "index"
       /\ creq'[g].resp.info.protocol = idx["0xa"].protocol
       /\ creq'[g].resp.info.contract_type = idx["0xa"].contract_type

\* a row of the index is never removed
RowsStay == \A k \in StoredKeys : idx[k] # NoRow => idx'[k] # NoRow

C20_HighestConfidenceKept ==
    \A k \in StoredKeys : idx[k] = best[k]

(***************************************************************************)
(* Part VIII: upsert_contract_info on a table held as a set of rows        *)
(* (services/contract_index.py)                                            *)
(*                                                                         *)
(* Two sessions call upsert_contract_info.  A call is the statement        *)
(* INSERT ... ON CONFLICT (address) DO UPDATE followed by session.commit(); *)
(* a statement on an address another session has written and not yet      *)
(* committed waits for that commit.                                        *)
(***************************************************************************)

MaxUpserts == 3        \* how many calls of upsert_contract_info start

Sessions == {"s1", "s2"}

\* the `meta` argument: None, an empty dict, a dict with an entry
Metas == {"None", "{}", "{k}"}

NoCall == [address |-> "", protocol |-> "", confidence |-> 0, meta |-> ""]

\* the arguments of a call
UpsertCalls ==
    [address : AddressInputs, protocol : {"Aave", "Manual"},
     confidence : {UrlConfidence, ManualConfidence}, meta : Metas]

\* `meta or {}`
MetaOrEmpty(meta) == IF meta \in {"None", "{}"} THEN "{}" ELSE meta

\* the values(...) of the statement: the address lower-cased and stripped
Values(call) ==
    [address |-> Lower(call.address), protocol |-> call.protocol,
     confidence |-> call.confidence, meta |-> MetaOrEmpty(call.meta)]

\* a row of the table: the values and updated_at
IndexRow(values, at) ==
    [address |-> values.address, protocol |-> values.protocol,
     confidence |-> values.confidence, meta |-> values.meta, updated_at |-> at]

\* an insert that ignores the conflict and adds a second row
on_conflict_do_insert(rows, values, at) == rows \cup {IndexRow(values, at)}

\* pg_insert(ContractIndex).values(...).on_conflict_do_update(index_elements=["address"], set_=...)
on_conflict_do_update(rows, values, at) ==
    {r \in rows : r.address # values.address} \cup {IndexRow(values, at)}

UpsertIdle ==
    [pc |-> "upsert", rows |-> {}, pend |-> [s \in Sessions |-> NoCall],
     last |-> [k \in StoredKeys |-> NoCall], prev |-> [k \in StoredKeys |-> NoCall],
     before |-> {}, key |-> "", n |-> 0]

\* result = session.execute(stmt): the statement runs, or raises when the
\* table refuses the address; it waits while another session holds the address
UpsertExecute(s) ==
    /\ fx.pc = "upsert" /\ fx.pend[s] = NoCall /\ fx.n < MaxUpserts
    /\ \E call \in UpsertCalls, accepted \in BOOLEAN :
          /\ accepted \in StoreAccepts(call.address)
          /\ \A o \in Sessions : fx.pend[o] # NoCall =>
                Values(fx.pend[o]).address # Values(call).address
          /\ fx' = [fx EXCEPT !.pend[s] = IF accepted THEN call ELSE NoCall,
                              !.n = fx.n + 1]
    /\ UNCHANGED <<wvars, svars, rag, cvars>>

\* session.commit(): the row of the statement is in the table
UpsertCommit(s) ==
    /\ fx.pc = "upsert" /\ fx.pend[s] # NoCall
    /\ LET values == Values(fx.pend[s])
       IN  fx' = [fx EXCEPT !.rows = on_conflict_do_update(fx.rows, values, fx.n),
                            !.before = fx.rows,
                            !.key = values.address,
                            !.prev = [fx.prev EXCEPT ![values.address] = fx.last[values.address]],
                            !.last = [fx.last EXCEPT ![values.address] = fx.pend[s]],
                            !.pend[s] = NoCall]
    /\ UNCHANGED <<wvars, svars, rag, cvars>>

UpsertInit ==
    /\ now = 0 /\ stale_after_s = StaleT /\ jobs_backend = "worker" /\ WIdle
    /\ max_concurrent = 0 /\ chat_configured = TRUE /\ answer_append_sources = FALSE /\ SIdle
    /\ RagIdle /\ CIdle
    /\ fx = UpsertIdle

UpsertNext ==
    \/ \E s \in Sessions : UpsertExecute(s)
    \/ \E s \in Sessions : UpsertCommit(s)

UpsertSpec == UpsertInit /\ [][UpsertNext]_vars

\* a row without updated_at
OtherFields(row) ==
    [address |-> row.address, protocol |-> row.protocol,
     confidence |-> row.confidence, meta |-> row.meta]

\* the rows of an address
RowsOf(rows, key) == {r \in rows : r.address = key}

\* one row for every address a committed call named, none for any other, and
\* the row carries what the last committed call for the address passed
OneRowOfLastUpsert ==
    \A k \in StoredKeys :
        IF fx.last[k] = NoCall
        THEN RowsOf(fx.rows, k) = {}
        ELSE /\ Cardinality(RowsOf(fx.rows, k)) = 1
             /\ \A r \in RowsOf(fx.rows, k) : OtherFields(r) = Values(fx.last[k])

\* every row is stored under a lower-cased address one of the calls named
LowerCasedRows ==
    \A r \in fx.rows : r.address \in StoredKeys /\ r.address = Lower(r.address)

\* the call committed last repeats the one committed before it for the same
\* address: apart from updated_at the table is as it was before
RepeatedUpsertKeeps ==
    \A k \in StoredKeys :
        (fx.key = k /\ fx.prev[k] = fx.last[k])
        => \A j \in StoredKeys :
              {OtherFields(r) : r \in RowsOf(fx.rows, j)} = {OtherFields(r) : r \in RowsOf(fx.before, j)}

\* C21: whatever the order in which calls of upsert_contract_info commit,
\* the index holds exactly one row for every lower-cased address a committed
\* call named, the fields of the row other than updated_at are those of the
\* last committed call for the address, and a call that repeats the previous
\* one for its address changes no field other than updated_at.
C21_OneRowLastWriter ==
    fx.pc = "upsert" => OneRowOfLastUpsert /\ LowerCasedRows /\ RepeatedUpsertKeeps

\* three calls were committed, the last one repeats the one before it for the
\* upper-case form of the address: one row under the lower-case address, as it
\* was before the last call but for updated_at
C21_Witness ==
    /\ fx.pc = "upsert" /\ fx.n = MaxUpserts
    /\ fx.last["0xa"] # NoCall /\ fx.prev["0xa"] = fx.last["0xa"]
    /\ fx.last["0xa"].address = "0xA"
    /\ \E r \in fx.before : r.address = "0xa" /\ OtherFields(r) = Values(fx.last["0xa"])
    /\ \E r \in fx.rows : r.address = "0xa" /\ r.updated_at = MaxUpserts
    /\ \A s \in Sessions : fx.pend[s] = NoCall

(***************************************************************************)
(* Part IX: address preprocessing of chunk texts (indexing/chunking.py)    *)
(*                                                                         *)
(* A text is a sequence of glyphs, each counted as one character: "0x" the *)
(* prefix of an address, "a" "b" "B" hexadecimal digits, "nl" white space, *)
(* "L" the opening of a Markdown link up to the last "/" before the        *)
(* address, `[label](https://host/path/`, ")" the closing parenthesis, and *)
(* "[CONTRACT_ADDRESSES]" the literal of the address block.  An address    *)
(* has AddrDigits digits after the prefix where the source has forty.      *)
(***************************************************************************)

MaxText == 5       \* texts to preprocess have at most this many glyphs
AddrDigits == 1    \* the digits of an address, the {40} of the pattern

Glyphs == {"0x", "a", "B", "nl", "L", ")"}

HexDigits == {"a", "b", "B"}

BlockLiteral == "[CONTRACT_ADDRESSES]"

RECURSIVE Markdowns(_)
Markdowns(n) ==
    IF n = 0 THEN {<<>>}
    ELSE Markdowns(n - 1)
            \cup {Append(t, c) : t \in {u \in Markdowns(n - 1) : Len(u) = n - 1}, c \in Glyphs}

\* str.lower() of one glyph
LowerGlyph(c) == IF c = "B" THEN "b" ELSE c

\* _CONTRACT_ADDRESS_RE matches at position i
IsAddressAt(t, i) ==
    /\ i >= 1 /\ i + AddrDigits <= Len(t)
    /\ t[i] = "0x"
    /\ \A j \in 1..AddrDigits : t[i + j] \in HexDigits

\* match.group(0).lower()
AddressAt(t, i) == [j \in 1..(AddrDigits + 1) |-> LowerGlyph(t[i + j - 1])]

\* _CONTRACT_ADDRESS_RE.finditer(text) from position i on: the matches from
\* left to right, none overlapping another
RECURSIVE BareAddresses(_, _)
BareAddresses(t, i) ==
    IF i > Len(t) THEN {}
    ELSE IF IsAddressAt(t, i)
         THEN {AddressAt(t, i)} \cup BareAddresses(t, i + AddrDigits + 1)
         ELSE BareAddresses(t, i + 1)

\* where the address of a link that opens at i starts: the first address
\* with no ")" before it, provided a ")" follows; 0 when the pattern fails
LinkAddressStart(t, i) ==
    LET starts == {j \in (i + 1)..Len(t) :
                      IsAddressAt(t, j) /\ \A k \in (i + 1)..(j - 1) : t[k] # ")"}
        first == CHOOSE j \in starts : \A k \in starts : j <= k
    IN  IF t[i] # "L" \/ starts = {} THEN 0
        ELSE IF \E k \in (first + AddrDigits + 1)..Len(t) : t[k] = ")" THEN first ELSE 0

\* where a link whose address starts at j ends: the next ")"
LinkEnd(t, j) ==
    CHOOSE k \in (j + AddrDigits + 1)..Len(t) :
        t[k] = ")" /\ \A h \in (j + AddrDigits + 1)..(k - 1) : t[h] # ")"

\* _MARKDOWN_LINK_ADDRESS_RE.finditer(text) from position i on, group(2).lower()
RECURSIVE LinkAddresses(_, _)
LinkAddresses(t, i) ==
    IF i > Len(t) THEN {}
    ELSE IF LinkAddressStart(t, i) # 0
         THEN {AddressAt(t, LinkAddressStart(t, i))}
                 \cup LinkAddresses(t, LinkEnd(t, LinkAddressStart(t, i)) + 1)
         ELSE LinkAddresses(t, i + 1)

\* the code point order of the glyphs of an address: "0" < "a" < "b"
GlyphRank(c) == IF c = "0x" THEN 0 ELSE IF c = "a" THEN 1 ELSE 2

\* u < v for two strings of the same length
StrLess(u, v) ==
    \E i \in 1..Len(u) :
        /\ GlyphRank(u[i]) < GlyphRank(v[i])
        /\ \A j \in 1..(i - 1) : u[j] = v[j]

\* the addresses from the greatest down
RECURSIVE sorted_descending(_)
sorted_descending(S) ==
    IF S = {} THEN <<>>
    ELSE LET greatest == CHOOSE x \in S : \A y \in S : x = y \/ StrLess(y, x)
         IN  <<greatest>> \o sorted_descending(S \ {greatest})

\* sorted(addresses_found)
RECURSIVE sorted(_)
sorted(S) ==
    IF S = {} THEN <<>>
    ELSE LET least == CHOOSE x \in S : \A y \in S : x = y \/ StrLess(x, y)
         IN  <<least>> \o sorted(S \ {least})

\* "\n".join(lines)
RECURSIVE join(_)
join(lines) ==
    IF lines = <<>> THEN <<>>
    ELSE IF Len(lines) = 1 THEN lines[1]
    ELSE lines[1] \o <<"nl">> \o join(Tail(lines))

\* f"\n\n[CONTRACT_ADDRESSES]\n{address_list}"
address_block(addresses) == <<"nl", "nl", BlockLiteral, "nl">> \o join(sorted(addresses))

\* _preprocess_for_search
preprocess_for_search(text) ==
    LET addresses_found == LinkAddresses(text, 1) \cup BareAddresses(text, 1)
    IN  IF addresses_found = {} THEN text ELSE text \o address_block(addresses_found)

NoText == <<"None">>

\* the first application
PreprocessCall ==
    /\ fx.pc = "text"
    /\ fx' = [fx EXCEPT !.pc = "once", !.once = preprocess_for_search(fx.text)]
    /\ UNCHANGED <<wvars, svars, rag, cvars>>

\* the application to the output of the first
PreprocessAgain ==
    /\ fx.pc = "once"
    /\ fx' = [fx EXCEPT !.pc = "twice", !.twice = preprocess_for_search(fx.once)]
    /\ UNCHANGED <<wvars, svars, rag, cvars>>

PreprocessInit ==
    /\ now = 0 /\ stale_after_s = StaleT /\ jobs_backend = "worker" /\ WIdle
    /\ max_concurrent = 0 /\ chat_configured = TRUE /\ answer_append_sources = FALSE /\ SIdle
    /\ RagIdle /\ CIdle
    /\ \E text \in Markdowns(MaxText) :
          fx = [pc |-> "text", text |-> text, once |-> NoText, twice |-> NoText]

PreprocessNext == PreprocessCall \/ PreprocessAgain

PreprocessSpec == PreprocessInit /\ [][PreprocessNext]_vars

\* C22: address preprocessing applied to its own output returns that
\* output, for texts with addresses and for texts without.
C22_PreprocessIdempotent ==
    fx.pc = "twice" => fx.twice = fx.once

(***************************************************************************)
(* Part X: the split of a section by length (indexing/chunking.py)         *)
(*                                                                         *)
(* The while loop of _split_by_length runs one iteration per step.         *)
(***************************************************************************)

MaxWindows == 7    \* iterations of the while loop the model follows
WholeChars == 16   \* a max_chars no preprocessed text of the model exceeds

\* max_chars and overlap_chars of the settings
MaxCharsValues == {1, 2, 3, 4, WholeChars}
OverlapValues == {0, 1, 2}

\* "\n".join(section_lines).strip() that is not empty: what the callers pass
SectionTexts(n) == {t \in Markdowns(n) : t # <<>> /\ strip(t, {"nl"}) = t}

\* text[start:end], positions counted from 0
Slice(text, start, end) == SubSeq(text, start + 1, end)

\* ChunkItem, with the text it was made of
ChunkOf(source) == [source |-> source, text |-> preprocess_for_search(source)]

\* processed_text = _preprocess_for_search(text); a text that fits is one chunk
SplitWhole ==
    /\ fx.pc = "begin" /\ Len(preprocess_for_search(fx.text)) <= fx.max_chars
    /\ fx' = [fx EXCEPT !.pc = "done", !.items = <<ChunkOf(fx.text)>>]
    /\ UNCHANGED <<wvars, svars, rag, cvars>>

\* items = []; start = 0
SplitEnter ==
    /\ fx.pc = "begin" /\ Len(preprocess_for_search(fx.text)) > fx.max_chars
    /\ fx' = [fx EXCEPT !.pc = "loop", !.start = 0]
    /\ UNCHANGED <<wvars, svars, rag, cvars>>

\* one test of `while start < len(text)` and, if it holds, one iteration
SplitWindow ==
    /\ fx.pc = "loop" /\ Len(fx.windows) < MaxWindows
    /\ LET end == Min(fx.start + fx.max_chars, Len(fx.text))
           part == strip(Slice(fx.text, fx.start, end), {"nl"})
       IN  fx' = IF ~(fx.start < Len(fx.text)) THEN [fx EXCEPT !.pc = "done"]
                 ELSE [fx EXCEPT
                    !.items = IF part # <<>> THEN Append(fx.items, ChunkOf(part)) ELSE fx.items,
                    !.windows = Append(fx.windows, <<fx.start, end>>),
                    !.pc = IF end >= Len(fx.text) THEN "done" ELSE "loop",
                    !.start = IF end >= Len(fx.text) THEN fx.start
                              ELSE Max(0, end - fx.overlap_chars)]
    /\ UNCHANGED <<wvars, svars, rag, cvars>>

SplitInit ==
    /\ now = 0 /\ stale_after_s = StaleT /\ jobs_backend = "worker" /\ WIdle
    /\ max_concurrent = 0 /\ chat_configured = TRUE /\ answer_append_sources = FALSE /\ SIdle
    /\ RagIdle /\ CIdle
    /\ \E text \in SectionTexts(MaxText), m \in MaxCharsValues, o \in OverlapValues :
          fx = [pc |-> "begin", text |-> text, max_chars |-> m, overlap_chars |-> o,
                start |-> 0, items |-> <<>>, windows |-> <<>>]

SplitNext == SplitWhole \/ SplitEnter \/ SplitWindow

SplitSpec == SplitInit /\ [][SplitNext]_vars

\* section texts of letters and white space only
PlainTexts(n) == {t \in SectionTexts(n) : \A i \in DOMAIN t : t[i] \in {"a", "nl"}}

SplitFairInit ==
    /\ now = 0 /\ stale_after_s = StaleT /\ jobs_backend = "worker" /\ WIdle
    /\ max_concurrent = 0 /\ chat_configured = TRUE /\ answer_append_sources = FALSE /\ SIdle
    /\ RagIdle /\ CIdle
    /\ \E text \in PlainTexts(MaxText), m \in MaxCharsValues, o \in OverlapValues :
          fx = [pc |-> "begin", text |-> text, max_chars |-> m, overlap_chars |-> o,
                start |-> 0, items |-> <<>>, windows |-> <<>>]

\* the call runs as long as it can take a step
SplitFairSpec == SplitFairInit /\ [][SplitNext]_vars /\ WF_vars(SplitNext)

\* the addresses a text holds, bare or in the URL of a link: every place
\* where the prefix is followed by the digits of an address
AddressesIn(t) == {AddressAt(t, i) : i \in {j \in 1..Len(t) : IsAddressAt(t, j)}}

\* the text is the source followed by the block of the addresses, one per
\* line and each line less than the next
EndsWithBlockOf(text, source, addresses) ==
    LET n == Cardinality(addresses)
        w == AddrDigits + 1
        rest == SubSeq(text, Len(source) + 5, Len(text))
        line(k) == SubSeq(rest, (k - 1) * (w + 1) + 1, (k - 1) * (w + 1) + w)
    IN  /\ Len(text) = Len(source) + 4 + n * w + (n - 1)
        /\ SubSeq(text, 1, Len(source)) = source
        /\ SubSeq(text, Len(source) + 1, Len(source) + 4) = <<"nl", "nl", BlockLiteral, "nl">>
        /\ \A k \in 1..n : line(k) \in addresses
        /\ \A k \in 1..(n - 1) : rest[k * (w + 1)] = "nl" /\ StrLess(line(k), line(k + 1))

\* C23: the text of every emitted chunk is the text it was made of, followed,
\* when that text holds addresses (bare or in a Markdown link), by the block
\* "\n\n[CONTRACT_ADDRESSES]\n" and its distinct lower-cased addresses, one per
\* line in sorted order; with no address the text is unchanged.
C23_ChunkAddressBlock ==
    fx.pc \in {"loop", "done"} =>
        \A i \in DOMAIN fx.items :
            IF AddressesIn(fx.items[i].source) = {}
            THEN fx.items[i].text = fx.items[i].source
            ELSE EndsWithBlockOf(fx.items[i].text, fx.items[i].source,
                                 AddressesIn(fx.items[i].source))

\* a section split into windows: the first chunk holds two addresses, the
\* greater one in upper case first, and a later chunk holds none
C23_Witness ==
    /\ fx.pc = "done" /\ Len(fx.items) >= 2
    /\ Cardinality(AddressesIn(fx.items[1].source)) = 2
    /\ fx.items[1].source[2] = "B"
    /\ \E i \in DOMAIN fx.items :
          AddressesIn(fx.items[i].source) = {} /\ fx.items[i].text = fx.items[i].source

\* what the split returns: one chunk for a text that fits, else windows of
\* max_chars characters (the last one up to the end of the text) that start
\* max_chars - overlap_chars apart and leave no character out
SplitShape ==
    IF Len(fx.text) <= fx.max_chars THEN Len(fx.items) = 1
    ELSE /\ \A k \in DOMAIN fx.windows :
               \/ fx.windows[k][2] - fx.windows[k][1] = fx.max_chars
               \/ k = Len(fx.windows) /\ fx.windows[k][2] = Len(fx.text)
         /\ \A k \in 1..(Len(fx.windows) - 1) :
               fx.windows[k + 1][1] = fx.windows[k][1] + fx.max_chars - fx.overlap_chars
         /\ \A p \in 0..(Len(fx.text) - 1) :
               \E k \in DOMAIN fx.windows : fx.windows[k][1] <= p /\ p < fx.windows[k][2]

MaxLines == 5      \* lines of a document

NoHeader == [level |-> 0, title |-> 0]

HeaderOf(level, title) == [level |-> level, title |-> title]

\* current_path after a header line
NextPath(current_path, level, title) ==
    IF level = 1 THEN <<HeaderOf(level, title)>>
    ELSE IF level = 2
    THEN (IF current_path # <<>> THEN Take(current_path, 1) ELSE <<>>)
            \o <<HeaderOf(level, title)>>
    ELSE (IF Len(current_path) >= 2 THEN Take(current_path, 2) ELSE current_path)
            \o <<HeaderOf(level, title)>>

\* a line that matches ^(#{1,3})\s+(.*)$: flush, the new current_path, the
\* header line opens the next section
HeaderLine ==
    /\ fx.pc = "lines" /\ fx.n < MaxLines
    /\ \E level \in 1..3 :
          fx' = [fx EXCEPT
                    !.n = fx.n + 1,
                    !.current_path = NextPath(fx.current_path, level, fx.n + 1),
                    !.sections = IF fx.open THEN Append(fx.sections, fx.current_path)
                                 ELSE fx.sections,
                    !.open = TRUE,
                    !.h1 = IF level = 1 THEN HeaderOf(1, fx.n + 1) ELSE fx.h1,
                    !.h2 = IF level = 1 THEN NoHeader
                           ELSE IF level = 2 THEN HeaderOf(2, fx.n + 1) ELSE fx.h2,
                    !.last = HeaderOf(level, fx.n + 1)]
    /\ UNCHANGED <<wvars, svars, rag, cvars>>

\* any other line joins the section that is open
TextLine ==
    /\ fx.pc = "lines" /\ fx.n < MaxLines
    /\ fx' = [fx EXCEPT !.n = fx.n + 1, !.open = TRUE, !.last = NoHeader]
    /\ UNCHANGED <<wvars, svars, rag, cvars>>

\* the end of the document: the last flush
LastFlush ==
    /\ fx.pc = "lines"
    /\ fx' = [fx EXCEPT !.pc = "flushed",
                        !.sections = IF fx.open THEN Append(fx.sections, fx.current_path)
                                     ELSE fx.sections,
                        !.open = FALSE]
    /\ UNCHANGED <<wvars, svars, rag, cvars>>

HeaderInit ==
    /\ now = 0 /\ stale_after_s = StaleT /\ jobs_backend = "worker" /\ WIdle
    /\ max_concurrent = 0 /\ chat_configured = TRUE /\ answer_append_sources = FALSE /\ SIdle
    /\ RagIdle /\ CIdle
    /\ fx = [pc |-> "lines", n |-> 0, current_path |-> <<>>, sections |-> <<>>,
             open |-> FALSE, h1 |-> NoHeader, h2 |-> NoHeader, last |-> NoHeader]

HeaderNext == HeaderLine \/ TextLine \/ LastFlush

HeaderSpec == HeaderInit /\ [][HeaderNext]_vars

\* the headers that are there, in order
Present(headers) == SelectSeq(headers, LAMBDA h : h # NoHeader)

\* the breadcrumb by levels: the H1 and the H2 in force, then the header
Breadcrumb(h1, h2, header) ==
    IF header.level = 1 THEN <<header>>
    ELSE IF header.level = 2 THEN Present(<<h1, header>>)
    ELSE Present(<<h1, h2, header>>)

\* C28: after a header line the breadcrumb is the H1 for level 1, the H1 in
\* force (if any) and the H2 for level 2, the H1 and the H2 in force (if
\* any) and the H3 for level 3; so a section path has at most three entries
\* and every entry is of a lesser level than the entries after it.
C28_BreadcrumbByLevel ==
    /\ fx.pc = "lines" /\ fx.last # NoHeader
          => fx.current_path = Breadcrumb(fx.h1, fx.h2, fx.last)
    /\ fx.pc \in {"lines", "flushed"} =>
          \A k \in DOMAIN fx.sections :
              /\ Len(fx.sections[k]) <= 3
              /\ \A i, j \in DOMAIN fx.sections[k] :
                    i < j => fx.sections[k][i].level < fx.sections[k][j].level

(***************************************************************************)
(* Part XII: the JSON mode of answer_with_rag (rag/pipeline.py)            *)
(*                                                                         *)
(* A reply of the chat model is a sequence of glyphs: the brackets of      *)
(* JSON, "k" the key of a member with its colon, "1" a scalar, "nl" white  *)
(* space, "t" prose, "fence" the three backticks of a code fence.              *)
(***************************************************************************)

MaxReply == 5          \* glyphs of a reply
MessageClamp == 2000   \* the longest message of the invalid_json object

JsonGlyphs == {"{", "}", "k", "[", "]", "1", "nl", "t", "fence"}

RECURSIVE ModelReplies(_)
ModelReplies(n) ==
    IF n = 0 THEN {<<>>}
    ELSE ModelReplies(n - 1)
            \cup {Append(t, c) : t \in {u \in ModelReplies(n - 1) : Len(u) = n - 1},
                                 c \in JsonGlyphs}

\* the JSON texts without white space, nested at most d deep
RECURSIVE JsonValues(_)
JsonValues(d) ==
    IF d = 0 THEN {<<"1">>, <<"{", "}">>, <<"[", "]">>}
    ELSE JsonValues(d - 1)
            \cup {<<"[">> \o v \o <<"]">> : v \in JsonValues(d - 1)}
            \cup {<<"{", "k">> \o v \o <<"}">> : v \in JsonValues(d - 1)}

\* the JSON texts of at most MaxReply glyphs
JsonTexts == JsonValues((MaxReply - 1) \div 2)

\* a text without its white space
Squeeze(t) == SelectSeq(t, LAMBDA c : c # "nl")

\* json.loads(raw) returns: the text is JSON, white space between its tokens allowed
Loads(raw) == Squeeze(raw) \in JsonTexts

\* isinstance(data, dict)
IsDict(raw) == Squeeze(raw)[1] = "{"

\* str.find / str.rfind, positions counted from 1, 0 when there is none
Find(t, c) ==
    IF \E i \in DOMAIN t : t[i] = c
    THEN CHOOSE i \in DOMAIN t : t[i] = c /\ \A j \in 1..(i - 1) : t[j] # c
    ELSE 0

RFind(t, c) ==
    IF \E i \in DOMAIN t : t[i] = c
    THEN CHOOSE i \in DOMAIN t : t[i] = c /\ \A j \in (i + 1)..Len(t) : t[j] # c
    ELSE 0

\* _strip_code_fences
strip_code_fences(text) ==
    LET t == strip(text, {"nl"})
        body == IF Find(t, "nl") = 0 THEN t ELSE SubSeq(t, Find(t, "nl") + 1, Len(t))
        cut == IF body # <<>> /\ body[Len(body)] = "fence"
               THEN SubSeq(body, 1, Len(body) - 1) ELSE body
    IN  IF t = <<>> THEN <<>>
        ELSE IF t[1] = "fence" THEN strip(cut, {"nl"})
        ELSE t

\* _extract_json_object
extract_json_object(text) ==
    LET t == strip_code_fences(text)
        start == Find(t, "{")
        end == RFind(t, "}")
    IN  IF t = <<>> THEN <<>>
        ELSE IF start >= 1 /\ end > start THEN strip(SubSeq(t, start, end), {"nl"})
        ELSE t

\* the three contents: the object itself, {"data": value}, the invalid_json object
JsonContent(kind, json, message) == [kind |-> kind, json |-> json, message |-> message]

\* the extracted text returned as it is, without parsing it
ensure_json_object_unparsed(content) ==
    JsonContent("object", extract_json_object(content), <<>>)

\* _ensure_json_object
ensure_json_object(content) ==
    LET raw == extract_json_object(content)
    IN  IF raw # <<>> /\ Loads(raw)
        THEN IF IsDict(raw) THEN JsonContent("object", Squeeze(raw), <<>>)
             ELSE JsonContent("data", Squeeze(raw), <<>>)
        ELSE JsonContent("error", <<>>, clamp_text(strip(content, {"nl"}), MessageClamp))

\* answer_with_rag in JSON mode: content = (result.content or "").strip(),
\* then _ensure_json_object(content)
EnsureCall ==
    /\ fx.pc = "reply"
    /\ fx' = [fx EXCEPT !.pc = "content",
                        !.content = ensure_json_object(strip(fx.reply, {"nl"}))]
    /\ UNCHANGED <<wvars, svars, rag, cvars>>

EnsureInit ==
    /\ now = 0 /\ stale_after_s = StaleT /\ jobs_backend = "worker" /\ WIdle
    /\ max_concurrent = 0 /\ chat_configured = TRUE /\ answer_append_sources = FALSE /\ SIdle
    /\ RagIdle /\ CIdle
    /\ \E reply \in ModelReplies(MaxReply) :
          fx = [pc |-> "reply", reply |-> reply, content |-> JsonContent("", <<>>, <<>>)]

EnsureSpec == EnsureInit /\ [][EnsureCall]_vars

\* the content is the text of a JSON object
ParsesAsObject(content) ==
    /\ content.kind \in {"object", "data", "error"}
    /\ content.kind = "object" =>
          content.json \in JsonTexts /\ content.json[1] = "{"
    /\ content.kind = "data" => content.json \in JsonTexts

\* some part of the reply is a JSON object
HoldsObject(reply) ==
    \E i, j \in DOMAIN reply :
        /\ i < j
        /\ Squeeze(SubSeq(reply, i, j)) \in JsonTexts
        /\ reply[i] = "{"

InvalidJsonOf(reply) ==
    JsonContent("error", <<>>, clamp_text(strip(reply, {"nl"}), MessageClamp))

MaxAnswer == 6         \* glyphs of the text of the chat model
MaxRefs == 1           \* the most sources of an answer
CitationDigits == 3    \* the most digits of a citation, the {1,3} of _CITATION_RE

AnswerGlyphs == {"[", "]", "0", "1", "9", "sp"}

Digits == {"0", "1", "9"}

\* the disclosure sentence appended when no citation is left
Disclosure == "(no citation in the text, the sources are listed)"

RECURSIVE ModelAnswers(_)
ModelAnswers(n) ==
    IF n = 0 THEN {<<>>}
    ELSE ModelAnswers(n - 1)
            \cup {Append(t, c) : t \in {u \in ModelAnswers(n - 1) : Len(u) = n - 1},
                                 c \in AnswerGlyphs}

DigitValue(c) == IF c = "0" THEN 0 ELSE IF c = "1" THEN 1 ELSE 9

\* int(m.group(1))
RECURSIVE IntOf(_)
IntOf(ds) ==
    IF ds = <<>> THEN 0 ELSE 10 * IntOf(SubSeq(ds, 1, Len(ds) - 1)) + DigitValue(ds[Len(ds)])

\* how many digits the match of _CITATION_RE at position i has, 0 when the
\* pattern does not match there; at most `most` digits are allowed
CitationAt(t, i, most) ==
    LET lens == {n \in 1..most :
                    /\ i + n + 1 <= Len(t)
                    /\ \A j \in 1..n : t[i + j] \in Digits
                    /\ t[i + n + 1] = "]"}
    IN  IF i <= Len(t) /\ t[i] = "[" /\ lens # {} THEN CHOOSE n \in lens : TRUE ELSE 0

\* _CITATION_RE.sub(_repl, text) from position i on: one pass from left to
\* right, a match is kept when its number is in 1..max_ref and dropped otherwise
RECURSIVE SubCitations(_, _, _)
SubCitations(t, i, max_ref) ==
    IF i > Len(t) THEN <<>>
    ELSE LET n == CitationAt(t, i, CitationDigits)
         IN  IF n = 0 THEN <<t[i]>> \o SubCitations(t, i + 1, max_ref)
             ELSE (IF 1 <= IntOf(SubSeq(t, i + 1, i + n)) /\ IntOf(SubSeq(t, i + 1, i + n)) <= max_ref
                   THEN SubSeq(t, i, i + n + 1) ELSE <<>>)
                     \o SubCitations(t, i + n + 2, max_ref)

\* re.sub(r" {2,}", " ", cleaned)
RECURSIVE CollapseSpaces(_)
CollapseSpaces(t) ==
    IF Len(t) < 2 THEN t
    ELSE IF t[1] = "sp" /\ t[2] = "sp" THEN CollapseSpaces(Tail(t))
    ELSE <<t[1]>> \o CollapseSpaces(Tail(t))

\* _sanitize_inline_citations
sanitize_inline_citations(text, max_ref) ==
    strip(CollapseSpaces(SubCitations(text, 1, max_ref)), {"sp"})

\* _has_any_inline_citation
has_any_inline_citation(text) ==
    \E i \in DOMAIN text : CitationAt(text, i, CitationDigits) # 0

\* answer_with_rag with inline citations enabled: the sanitized text and,
\* when there are sources and no citation is left, the disclosure sentence
SanitizeCall ==
    /\ fx.pc = "answer"
    /\ LET content == sanitize_inline_citations(strip(fx.text, {"sp"}), fx.nsources)
       IN  fx' = [fx EXCEPT !.pc = "sanitized",
                            !.cleaned = content,
                            !.content = IF fx.nsources > 0 /\ ~has_any_inline_citation(content)
                                        THEN strip(Append(content, Disclosure), {"sp"})
                                        ELSE content]
    /\ UNCHANGED <<wvars, svars, rag, cvars>>

CiteInit ==
    /\ now = 0 /\ stale_after_s = StaleT /\ jobs_backend = "worker" /\ WIdle
    /\ max_concurrent = 0 /\ chat_configured = TRUE /\ answer_append_sources = FALSE /\ SIdle
    /\ RagIdle /\ CIdle
    /\ \E text \in ModelAnswers(MaxAnswer), n \in 0..MaxRefs :
          fx = [pc |-> "answer", text |-> text, nsources |-> n,
                cleaned |-> <<>>, content |-> <<>>]

CiteSpec == CiteInit /\ [][SanitizeCall]_vars

\* the numbers of the citation tokens of a text, from left to right: a
\* token is an opening bracket, digits, a closing bracket
CitationNumbers(t) ==
    LET at == {i \in DOMAIN t : CitationAt(t, i, Len(t)) # 0}
        nth(k) == CHOOSE i \in at : Cardinality({j \in at : j < i}) = k - 1
    IN  [k \in 1..Cardinality(at) |->
            IntOf(SubSeq(t, nth(k) + 1, nth(k) + CitationAt(t, nth(k), Len(t))))]

InRange(n, max_ref) == 1 <= n /\ n <= max_ref

\* C25: after the sanitization with N sources the answer holds no citation
\* token [k] with k < 1 or k > N, for every text of the model and every
\* N >= 0, and it holds every token [k] with 1 <= k <= N of that text.
C25_OnlyValidCitations ==
    fx.pc = "sanitized" =>
        /\ \A k \in DOMAIN CitationNumbers(fx.content) :
              InRange(CitationNumbers(fx.content)[k], fx.nsources)
        /\ Len(SelectSeq(CitationNumbers(fx.content), LAMBDA n : InRange(n, fx.nsources)))
              >= Len(SelectSeq(CitationNumbers(fx.text), LAMBDA n : InRange(n, fx.nsources)))

(***************************************************************************)
(* Part XIV: the context of the prompt (rag/pipeline.py)                   *)
(*                                                                         *)
(* A ranked chunk is the length of its text and how many characters of     *)
(* white space end it; its URL, title and section path are empty, and      *)
(* there are fewer than ten chunks, so that the index takes one digit.     *)
(***************************************************************************)

MaxBlocks == 3         \* ranked chunks
MaxChunkText == 2      \* characters of the text of a chunk
BlockFrame == 25       \* characters of a block around the text: "[i]\nURL: \n", the
                       \* three labelled lines and the newline that ends the block
Separator == 2         \* len("\n\n")

\* the texts of the chunks: length, and trailing white space
ChunkTexts ==
    {c \in [len : 0..MaxChunkText, trail : 0..MaxChunkText] : c.trail <= c.len}

RankedLists ==
    UNION {[1..n -> ChunkTexts] : n \in 0..MaxBlocks}

ContextLimits == 0..(MaxBlocks * (BlockFrame + MaxChunkText) + Separator * MaxBlocks)

\* len(block)
BlockLen(c) == BlockFrame + c.len

RECURSIVE SumLen(_, _)
SumLen(chunks, j) == IF j = 0 THEN 0 ELSE SumLen(chunks, j - 1) + BlockLen(chunks[j])

\* the for loop: how many blocks are appended before the break
RECURSIVE Appended(_, _, _, _)
Appended(chunks, i, total, max_chars) ==
    IF i > Len(chunks) THEN i - 1
    ELSE IF total + BlockLen(chunks[i]) > max_chars THEN i - 1
    ELSE Appended(chunks, i + 1, total + BlockLen(chunks[i]), max_chars)

\* what str.strip() takes from the end of the last block: its newline, the
\* white space that ends the text and, under a text of white space only,
\* the newline after the last label
Stripped(c) == 1 + c.trail + (IF c.trail = c.len THEN 1 ELSE 0)

\* len("\n\n".join(parts).strip())
JoinedLen(chunks, j) ==
    IF j = 0 THEN 0
    ELSE SumLen(chunks, j) + Separator * (j - 1) - Stripped(chunks[j])

\* _build_context: the blocks of the context and its length
build_context(chunks, max_chars) ==
    LET j == Appended(chunks, 1, 0, max_chars)
    IN  [parts |-> [i \in 1..j |-> i], length |-> JoinedLen(chunks, j)]

BuildContextCall ==
    /\ fx.pc = "chunks"
    /\ fx' = [fx EXCEPT !.pc = "context", !.out = build_context(fx.chunks, fx.max_chars)]
    /\ UNCHANGED <<wvars, svars, rag, cvars>>

ContextInit ==
    /\ now = 0 /\ stale_after_s = StaleT /\ jobs_backend = "worker" /\ WIdle
    /\ max_concurrent = 0 /\ chat_configured = TRUE /\ answer_append_sources = FALSE /\ SIdle
    /\ RagIdle /\ CIdle
    /\ \E chunks \in RankedLists, max_chars \in ContextLimits :
          fx = [pc |-> "chunks", chunks |-> chunks, max_chars |-> max_chars,
                out |-> [parts |-> <<>>, length |-> 0]]

ContextSpec == ContextInit /\ [][BuildContextCall]_vars

\* the context is the blocks 1..j of the ranked chunks, and block j + 1, if
\* there is one, does not fit after them
PrefixOfBlocks ==
    LET j == Len(fx.out.parts)
    IN  /\ j <= Len(fx.chunks)
        /\ \A i \in 1..j : fx.out.parts[i] = i
        /\ SumLen(fx.chunks, j) <= fx.max_chars
        /\ j < Len(fx.chunks) => SumLen(fx.chunks, j + 1) > fx.max_chars

\* C29: the context built from the ranked chunks is never longer than
\* context_max_chars, and it is the blocks of a prefix of the ranked chunks,
\* in rank order with none skipped, up to the first block that does not fit.
C29_ContextWithinLimit ==
    fx.pc = "context" => fx.out.length <= fx.max_chars /\ PrefixOfBlocks

(***************************************************************************)
(* Part XV: _requeue_stale_jobs on a jobs table larger than its LIMIT      *)
(***************************************************************************)

\* rows of the table whose status, started_at and error are drawn freely
MaxFree == 2
\* further rows, all running with one started_at: enough to exceed the LIMIT
MaxFill == 10

RowStatuses == {"queued", "running", "succeeded"}
StartTimes == 0..(MaxTime - 1)
\* WORKER_STALE_AFTER_S as _read_int may return it
StaleAfterValues == {-1, 0, StaleT, StaleT + 1}

FreeRows ==
    {[status |-> s, started_at |-> t, finished_at |-> NoTime, error |-> e, attempts |-> 1] :
        s \in RowStatuses, t \in StartTimes, e \in ExcMessages}

FillRow(t) ==
    [status |-> "running", started_at |-> t, finished_at |-> NoTime, error |-> "", attempts |-> 1]

JobTables ==
    {[j \in 1..(MaxFree + f) |-> IF j <= MaxFree THEN free[j] ELSE FillRow(t)] :
        free \in [1..MaxFree -> FreeRows], f \in 0..MaxFill, t \in {0, MaxTime - 1}}

\* FOR UPDATE SKIP LOCKED: the rows another transaction holds are not returned
Unlocked(jb, locked) == [j \in (DOMAIN jb) \ locked |-> jb[j]]

\* _requeue_stale_jobs(session, stale_after_s=...) at time fx.now
RequeueCall ==
    /\ fx.pc = "table"
    /\ \E S \in StaleSelections(Unlocked(fx.before, fx.locked), fx.now, fx.after_s) :
          fx' = [fx EXCEPT !.pc = "requeued",
                           !.after = requeue_stale_jobs(fx.before, S),
                           !.count = Cardinality(S)]
    /\ UNCHANGED <<wvars, svars, rag, cvars>>

RequeueInit ==
    /\ now = 0 /\ stale_after_s = StaleT /\ jobs_backend = "worker"
    /\ WIdle
    /\ max_concurrent = 0 /\ chat_configured = TRUE /\ answer_append_sources = FALSE
    /\ SIdle
    /\ RagIdle
    /\ CIdle
    /\ \E jb \in JobTables, a \in StaleAfterValues, l \in {{}, {1}} :
          fx = [pc |-> "table", before |-> jb, after |-> jb, locked |-> l,
                now |-> MaxTime, after_s |-> a, count |-> 0]

RequeueSpec == RequeueInit /\ [][RequeueCall]_vars

\* the rows the requeue step has changed
Requeued == {j \in DOMAIN fx.before : fx.after[j] # fx.before[j]}

\* status running and started_at before now - stale_after_s, when the step began
WasStale(j) ==
    /\ fx.before[j].status = "running"
    /\ fx.before[j].started_at < fx.now - fx.after_s

\* the row is queued, its error is the old error followed by the note
NoteAppended(j) ==
    /\ fx.after[j].status = "queued"
    /\ fx.after[j].error \in {StaleNote, fx.before[j].error \o "\n" \o StaleNote}
    /\ fx.before[j].error # "" => fx.after[j].error = fx.before[j].error \o "\n" \o StaleNote
    /\ fx.after[j].started_at = fx.before[j].started_at
    /\ fx.after[j].attempts = fx.before[j].attempts

\* C27: the requeue step changes only rows that were running with started_at
\* older than the threshold, at most 10 of them, each becomes queued with the
\* note appended to its error; every other row is as it was; with
\* stale_after_s <= 0 nothing is requeued.
C27_RequeueOnlyStale ==
    fx.pc = "requeued" =>
        /\ \A j \in Requeued : WasStale(j) /\ NoteAppended(j)
        /\ Cardinality(Requeued) <= 10
        /\ fx.count = Cardinality(Requeued)
        /\ DOMAIN fx.after = DOMAIN fx.before
        /\ fx.after_s <= 0 => Requeued = {}

\* ten rows were requeued, an eleventh stale row and a row that was not running were left
C27_Witness ==
    /\ fx.pc = "requeued"
    /\ Cardinality(Requeued) = 10
    /\ \E j \in DOMAIN fx.before \ Requeued : WasStale(j) /\ j \notin fx.locked
    /\ \E j \in DOMAIN fx.before : fx.before[j].status = "succeeded" /\ fx.after[j] = fx.before[j]
    /\ \E j \in Requeued : fx.before[j].error = "boom"

(***************************************************************************)
(* Part XVI: _handle_file_process_job                                      *)
(***************************************************************************)

\* the FileItems of one batch
MaxFiles == 3

\* payload["batch_id"]: missing, of no batch, of the batch in the table
BatchIds == {"", "b0", "b1"}
TextExts == {"txt", "md", "markdown", "csv", "html", "htm"}

\* the file at storage_path and the extension of its filename
StoredFiles ==
    {[exists |-> FALSE, ext |-> "txt", content |-> ""],
     [exists |-> TRUE, ext |-> "txt", content |-> ""],
     [exists |-> TRUE, ext |-> "txt", content |-> "x"],
     [exists |-> TRUE, ext |-> "pdf", content |-> "x"],
     [exists |-> TRUE, ext |-> "bin", content |-> "x"]}

\* a FileItem row when the job starts: not processed yet, or failed in an earlier attempt
FileItems ==
    {[file |-> f, filename |-> n, status |-> st, error |-> IF st = "failed" THEN "boom" ELSE ""] :
        f \in StoredFiles, n \in {"a", "b"}, st \in {"pending", "failed"}}

Raised(msg) == [raised |-> TRUE, msg |-> msg, text |-> ""]
Returned(text) == [raised |-> FALSE, msg |-> "", text |-> text]

\* _extract_text(path, filename=...)
extract_text(file, pdf_installed) ==
    IF ~file.exists THEN Raised("file not found")
    ELSE IF file.ext \in TextExts THEN Returned(file.content)
    ELSE IF file.ext = "pdf"
         THEN IF pdf_installed THEN Returned(file.content)
              ELSE Raised("pdf parser not installed (pdfplumber)")
    ELSE Raised("unsupported file type")

\* the try block of the loop up to the page upsert: text, or the exception caught
TryExtract(file, pdf_installed) ==
    LET res == extract_text(file, pdf_installed) IN
    IF res.raised THEN res
    ELSE IF res.text = "" THEN Raised("empty file content")
    ELSE res

\* a batch status that is never partial
batch_status_first_failure(failed, total) == IF failed > 0 THEN "failed" ELSE "completed"

\* batch.status = "failed" if failed and failed == total else (...)
batch_status(failed, total) ==
    IF failed # 0 /\ failed = total THEN "failed"
    ELSE IF failed = 0 THEN "completed" ELSE "partial"

\* the handler up to its first commit: the batch is looked up and set to processing
FileProcessEnter ==
    /\ fx.pc = "job"
    /\ IF fx.batch_id # "b1"
       THEN fx' = [fx EXCEPT !.pc = "raised"]
       ELSE fx' = [fx EXCEPT !.pc = "loop", !.total = Len(fx.items), !.i = 1,
                            !.done = 0, !.failed = 0,
                            !.batch = [status |-> "processing", error |-> ""]]
    /\ UNCHANGED <<wvars, svars, rag, cvars>>

\* one pass of `for it in items`, its commit included
FileItemStep ==
    /\ fx.pc = "loop"
    /\ fx.i <= fx.total
    /\ LET it  == fx.items[fx.i]
           res == TryExtract(it.file, fx.pdf_installed)
       IN IF res.raised
          THEN fx' = [fx EXCEPT !.items[fx.i].status = "failed",
                               !.items[fx.i].error = res.msg,
                               !.failed = fx.failed + 1,
                               !.i = fx.i + 1]
          ELSE fx' = [fx EXCEPT !.items[fx.i].status = "completed",
                               !.items[fx.i].error = "",
                               !.pages = fx.pages \cup {it.filename},
                               !.done = fx.done + 1,
                               !.i = fx.i + 1]
    /\ UNCHANGED <<wvars, svars, rag, cvars>>

\* session.commit() at the end of a pass raises: the handler ends with the
\* exception, the pass is rolled back
FileItemCommitRaise ==
    /\ fx.pc = "loop"
    /\ fx.i <= fx.total
    /\ fx' = [fx EXCEPT !.pc = "raised"]
    /\ UNCHANGED <<wvars, svars, rag, cvars>>

\* after the loop: the index pass (its exception is caught), the batch status, the return
FileProcessReturn ==
    /\ fx.pc = "loop"
    /\ fx.i > fx.total
    /\ \E index_raises \in BOOLEAN :
          fx' = [fx EXCEPT !.pc = "returned",
                           !.index_failed = index_raises,
                           !.batch = [status |-> batch_status(fx.failed, fx.total),
                                      error |-> IF fx.failed = 0 THEN "" ELSE "files failed"]]
    /\ UNCHANGED <<wvars, svars, rag, cvars>>

FileInit ==
    /\ now = 0 /\ stale_after_s = StaleT /\ jobs_backend = "worker"
    /\ WIdle
    /\ max_concurrent = 0 /\ chat_configured = TRUE /\ answer_append_sources = FALSE
    /\ SIdle
    /\ RagIdle
    /\ CIdle
    /\ \E b \in BatchIds, n \in 0..MaxFiles, p \in BOOLEAN :
          \E its \in [1..n -> FileItems] :
             fx = [pc |-> "job", batch_id |-> b, pdf_installed |-> p, items |-> its,
                   batch |-> [status |-> "pending", error |-> ""],
                   total |-> 0, i |-> 0, done |-> 0, failed |-> 0,
                   pages |-> {}, index_failed |-> FALSE]

FileNext ==
    \/ FileProcessEnter
    \/ FileItemStep
    \/ FileItemCommitRaise
    \/ FileProcessReturn

FileSpec == FileInit /\ [][FileNext]_vars

FailedItems == {j \in 1..Len(fx.items) : fx.items[j].status = "failed"}

\* every item is completed or failed, by the outcome of its own file
ItemsSettled ==
    \A j \in 1..Len(fx.items) :
        /\ fx.items[j].status \in {"completed", "failed"}
        /\ fx.items[j].status = "failed" <=> TryExtract(fx.items[j].file, fx.pdf_installed).raised

\* C26 as stated: when the handler returns every item is completed or failed,
\* and the batch is failed iff every item failed, completed iff no item
\* failed, partial otherwise.
C26_BatchStatusAsStated ==
    fx.pc = "returned" =>
        /\ ItemsSettled
        /\ fx.batch.status \in {"completed", "partial", "failed"}
        /\ fx.batch.status = "failed" <=> FailedItems = 1..Len(fx.items)
        /\ fx.batch.status = "completed" <=> FailedItems = {}

\* C26 amended: when the handler returns every item is completed or failed,
\* each by the outcome of its own file, and the batch is failed iff it has at
\* least one item and every item failed, completed iff no item failed,
\* partial otherwise.
C26_BatchStatusNonEmpty ==
    fx.pc = "returned" =>
        /\ ItemsSettled
        /\ fx.batch.status \in {"completed", "partial", "failed"}
        /\ fx.batch.status = "failed" <=>
              (Len(fx.items) > 0 /\ FailedItems = 1..Len(fx.items))
        /\ fx.batch.status = "completed" <=> FailedItems = {}
        /\ fx.batch.status = "partial" <=>
              (FailedItems # {} /\ FailedItems # 1..Len(fx.items))

\* the first file failed, a later one was completed, the batch is partial
C26_Witness ==
    /\ fx.pc = "returned"
    /\ Len(fx.items) = MaxFiles
    /\ fx.items[1].status = "failed"
    /\ fx.items[MaxFiles].status = "completed"
    /\ fx.batch.status = "partial"

====
